---------------------------- MODULE Spec2Model ----------------------------
(***************************************************************************)
(* Collection domain objects of the learning platform backend              *)
(* (core/domain/collection_domain.py): the schema-migration chain of       *)
(* collection dicts, the node list operations of a Collection and its      *)
(* validation.                                                             *)
(*                                                                         *)
(* Python dicts are objects: a function that is handed a dict is handed a  *)
(* reference, and an item assignment or a del writes to the caller's       *)
(* object.  The model keeps the dicts in a heap (address -> contents) and  *)
(* every function on dicts takes the heap and an address and returns the   *)
(* heap after the call together with the address it returns.               *)
(***************************************************************************)
EXTENDS Integers, Sequences, FiniteSets, TLC

VARIABLES
    heap,       \* address -> contents of the dict object stored there
    heap0,      \* the heap as it was when the call under way was entered
    pc,         \* position of the call under way
    exc,        \* the exception the call raised, or "none"
    call,       \* the call under way: its name and arguments
    ret,        \* address of the dict the call returned, or NoAddr
    collection_dict,            \* local of from_yaml: address of the dict
    collection_schema_version,  \* local of _migrate_to_latest_yaml_version
    applied,    \* the conversion functions called so far, in call order
    collection, \* the Collection object at hand, or NoObject
    collection0, \* the Collection as it was when the last call was entered
    validation, \* strict -> what validate(strict) did on this collection
    registry,   \* platform parameter registry: name -> rules of the parameter
    registry_log, \* the calls the service call at hand made to the registry
    dev_mode,   \* constants.DEV_MODE
    summary,    \* the CollectionSummary object at hand, or NoObject
    summary0,   \* the CollectionSummary as it was when the last call was entered
    exploration, \* the stored exploration the editor handlers work on
    exploration0, \* the exploration as it was when the last request came in
    draft,      \* the voice artist's stored draft for the exploration
    draft0,     \* the draft as it was when the last request came in
    saves,      \* payload versions of the saves accepted so far, in order
    viewer_site, \* what the story viewer serves: published stories, switches
    learner,    \* the progress records of the learner who is logged in
    learner0,   \* the progress records when the last request came in
    recommender, \* exploration rights, the job queue, stored recommendations
    recommender0 \* the same when the last call on them was made

\* The variables of the dict migrations, of a call, and of a Collection.
dictVars == <<heap, heap0, collection_dict, collection_schema_version, applied>>
callVars == <<pc, exc, call, ret>>
objectVars == <<collection, collection0, validation>>
flagVars == <<registry, registry_log, dev_mode>>
summaryVars == <<summary, summary0>>
handlerVars == <<exploration, exploration0, draft, draft0, saves>>
viewerVars == <<viewer_site, learner, learner0>>
jobVars == <<recommender, recommender0>>
servicesVars == <<flagVars, summaryVars, handlerVars, viewerVars, jobVars>>

vars == <<dictVars, callVars, objectVars, servicesVars>>

---------------------------------------------------------------------------
(* Program constants.                                                      *)

\* feconf.CURRENT_COLLECTION_SCHEMA_VERSION; the last conversion sets it.
CURRENT_COLLECTION_SCHEMA_VERSION == 6

\* constants.DEFAULT_LANGUAGE_CODE
DEFAULT_LANGUAGE_CODE == "en"

\* _SKILL_ID_PREFIX
SKILL_ID_PREFIX == "skill"

\* Python's None, for values that are strings otherwise.
None == "None"

---------------------------------------------------------------------------
(* Bounds of the model.                                                    *)

\* Longest node list of a collection dict given to a migration.
MaxDictNodes == 2

\* Schema versions tried as input run from 0 to this much above the current.
VersionSlack == 1

---------------------------------------------------------------------------
(* Dicts and the heap.                                                     *)

Addr == {"a1", "a2"}
NoAddr == "null"

\* The value of an integer local that has not been assigned yet.
Unbound == 0 - 1
EmptyDict == <<>>

HasKey(d, k) == k \in DOMAIN d
SetKey(d, k, v) == [x \in (DOMAIN d) \cup {k} |-> IF x = k THEN v ELSE d[x]]
DelKey(d, k) == [x \in (DOMAIN d) \ {k} |-> d[x]]

\* d[k] = v on the dict object at address a.
Store(h, a, k, v) == [h EXCEPT ![a] = SetKey(h[a], k, v)]
\* del d[k] on the dict object at address a.
Delete(h, a, k) == [h EXCEPT ![a] = DelKey(h[a], k)]

Range(s) == {s[i] : i \in DOMAIN s}

RECURSIVE SetToSortedSeq(_)
\* sorted(S) for a set of names; a name is modelled by its rank in Python's
\* string order, so the order of the naturals is the order of the names.
SetToSortedSeq(S) ==
    IF S = {} THEN <<>>
    ELSE LET m == CHOOSE x \in S : \A y \in S : x <= y
         IN <<m>> \o SetToSortedSeq(S \ {m})

RECURSIVE UnionOfSeq(_)
UnionOfSeq(s) ==
    IF s = <<>> THEN {} ELSE Head(s) \cup UnionOfSeq(Tail(s))

---------------------------------------------------------------------------
(* The schema conversions of collection dicts (YAML route) and of          *)
(* collection contents (storage route).  Each takes the heap h and the     *)
(* address a of the dict it is handed and returns [h |-> the heap after    *)
(* the call, r |-> the address of the dict it returns].                    *)

\* '%s%s' % (_SKILL_ID_PREFIX, index): distinct indices give distinct ids.
SkillId(index) == <<SKILL_ID_PREFIX, index>>

\* 0-based position of name in the sorted sequence s.
IndexOf(s, name) == (CHOOSE i \in DOMAIN s : s[i] = name) - 1

convert_collection_contents_v1_dict_to_v2_dict(h, a) ==
    [h |-> h, r |-> a]

convert_collection_contents_v2_dict_to_v3_dict(h, a) ==
    [h |-> h, r |-> a]

\* The conversion that numbers the skill ids from 1.
convert_collection_contents_v3_dict_to_v4_dict_from_one(h, a) ==
    LET nodes == h[a]["nodes"]
        skill_names ==
            UNION {Range(nodes[i]["acquired_skills"])
                     \cup Range(nodes[i]["prerequisite_skills"])
                   : i \in DOMAIN nodes}
        sorted == SetToSortedSeq(skill_names)
        skill_names_to_ids ==
            [name \in skill_names |-> SkillId(IndexOf(sorted, name) + 1)]
        new_nodes ==
            [i \in DOMAIN nodes |->
                [exploration_id |-> nodes[i]["exploration_id"],
                 prerequisite_skill_ids |->
                    [j \in DOMAIN nodes[i]["prerequisite_skills"] |->
                        skill_names_to_ids[nodes[i]["prerequisite_skills"][j]]],
                 acquired_skill_ids |->
                    [j \in DOMAIN nodes[i]["acquired_skills"] |->
                        skill_names_to_ids[nodes[i]["acquired_skills"][j]]]]]
        skills ==
            [skill_id \in {skill_names_to_ids[n] : n \in skill_names} |->
                [name |-> CHOOSE n \in skill_names :
                              skill_names_to_ids[n] = skill_id,
                 question_ids |-> <<>>]]
        h1 == Store(h, a, "nodes", new_nodes)
        h2 == Store(h1, a, "skills", skills)
        h3 == Store(h2, a, "next_skill_id", Cardinality(skill_names))
    IN [h |-> h3, r |-> a]

convert_collection_contents_v3_dict_to_v4_dict(h, a) ==
    LET nodes == h[a]["nodes"]
        skill_names ==
            UNION {Range(nodes[i]["acquired_skills"])
                     \cup Range(nodes[i]["prerequisite_skills"])
                   : i \in DOMAIN nodes}
        sorted == SetToSortedSeq(skill_names)
        skill_names_to_ids ==
            [name \in skill_names |-> SkillId(IndexOf(sorted, name))]
        new_nodes ==
            [i \in DOMAIN nodes |->
                [exploration_id |-> nodes[i]["exploration_id"],
                 prerequisite_skill_ids |->
                    [j \in DOMAIN nodes[i]["prerequisite_skills"] |->
                        skill_names_to_ids[nodes[i]["prerequisite_skills"][j]]],
                 acquired_skill_ids |->
                    [j \in DOMAIN nodes[i]["acquired_skills"] |->
                        skill_names_to_ids[nodes[i]["acquired_skills"][j]]]]]
        skills ==
            [skill_id \in {skill_names_to_ids[n] : n \in skill_names} |->
                [name |-> CHOOSE n \in skill_names :
                              skill_names_to_ids[n] = skill_id,
                 question_ids |-> <<>>]]
        h1 == Store(h, a, "nodes", new_nodes)
        h2 == Store(h1, a, "skills", skills)
        h3 == Store(h2, a, "next_skill_id", Cardinality(skill_names))
    IN [h |-> h3, r |-> a]

convert_collection_contents_v4_dict_to_v5_dict(h, a) ==
    LET h1 == Store(h, a, "next_skill_index", h[a]["next_skill_id"])
        h2 == Delete(h1, a, "next_skill_id")
    IN [h |-> h2, r |-> a]

convert_collection_contents_v5_dict_to_v6_dict(h, a) ==
    LET nodes == h[a]["nodes"]
        stripped ==
            [i \in DOMAIN nodes |->
                DelKey(DelKey(nodes[i], "prerequisite_skill_ids"),
                       "acquired_skill_ids")]
    IN [h |-> [h EXCEPT ![a]["nodes"] = stripped], r |-> a]

convert_v1_dict_to_v2_dict(h, a) ==
    LET h1 == Store(h, a, "schema_version", 2)
        h2 == Store(h1, a, "language_code", DEFAULT_LANGUAGE_CODE)
        h3 == Store(h2, a, "tags", <<>>)
    IN [h |-> h3, r |-> a]

\* A conversion that leaves its argument alone and returns a converted copy.
convert_v2_dict_to_v3_dict_copy(h, a) ==
    LET fresh == CHOOSE b \in Addr : b # a
    IN [h |-> [h EXCEPT ![fresh] = SetKey(h[a], "schema_version", 3)],
        r |-> fresh]

convert_v2_dict_to_v3_dict(h, a) ==
    [h |-> Store(h, a, "schema_version", 3), r |-> a]

convert_v3_dict_to_v4_dict(h, a) ==
    LET new == convert_collection_contents_v3_dict_to_v4_dict(h, a)
        h1 == Store(new.h, a, "skills", new.h[new.r]["skills"])
        h2 == Store(h1, a, "next_skill_id", h1[new.r]["next_skill_id"])
        h3 == Store(h2, a, "schema_version", 4)
    IN [h |-> h3, r |-> a]

convert_v4_dict_to_v5_dict(h, a) ==
    LET done == convert_collection_contents_v4_dict_to_v5_dict(h, a)
    IN [h |-> Store(done.h, a, "schema_version", 5), r |-> a]

\* The last conversion without its assignment of the schema version.
convert_v5_dict_to_v6_dict_stale(h, a) ==
    LET h1 == Delete(h, a, "skills")
        h2 == Delete(h1, a, "next_skill_index")
    IN [h |-> h2, r |-> a]

convert_v5_dict_to_v6_dict(h, a) ==
    LET h1 == Delete(h, a, "skills")
        h2 == Delete(h1, a, "next_skill_index")
    IN [h |-> Store(h2, a, "schema_version", 6), r |-> a]

\* The versions v for which the class defines _convert_v<v>_dict_to_v<v+1>_dict
\* (hasattr / getattr on Collection).
ConvertDictVersions == {1, 2, 3, 4, 5}

\* The versions v for which the class defines
\* _convert_collection_contents_v<v>_dict_to_v<v+1>_dict.
ConvertContentsVersions == {1, 2, 3, 4, 5}

\* getattr(cls, '_convert_v%s_dict_to_v%s_dict' % (v, v + 1))(d)
ConvertDict(v, h, a) ==
    CASE v = 1 -> convert_v1_dict_to_v2_dict(h, a)
      [] v = 2 -> convert_v2_dict_to_v3_dict(h, a)
      [] v = 3 -> convert_v3_dict_to_v4_dict(h, a)
      [] v = 4 -> convert_v4_dict_to_v5_dict(h, a)
      [] v = 5 -> convert_v5_dict_to_v6_dict(h, a)

\* getattr(cls, '_convert_collection_contents_v%s_dict_to_v%s_dict' % ...)(d)
ConvertContents(v, h, a) ==
    CASE v = 1 -> convert_collection_contents_v1_dict_to_v2_dict(h, a)
      [] v = 2 -> convert_collection_contents_v2_dict_to_v3_dict(h, a)
      [] v = 3 -> convert_collection_contents_v3_dict_to_v4_dict(h, a)
      [] v = 4 -> convert_collection_contents_v4_dict_to_v5_dict(h, a)
      [] v = 5 -> convert_collection_contents_v5_dict_to_v6_dict(h, a)

---------------------------------------------------------------------------
(* Collection objects.                                                     *)

NoObject == EmptyDict

\* validate has been called with neither value of strict.
NotValidated == [strict \in BOOLEAN |-> "not called"]

\* The node that keeps every item of the node dict.
CollectionNode_from_dict_whole(node_dict) == node_dict

\* CollectionNode.from_dict: a node keeps the exploration id and nothing else.
CollectionNode_from_dict(node_dict) ==
    [exploration_id |-> node_dict["exploration_id"]]

\* Collection.__init__: the attributes of a Collection object.
Collection(collection_id, title, category, objective, language_code, tags, schema_version, nodes, version, created_on, last_updated) ==
    [id |-> collection_id, title |-> title, category |-> category,
     objective |-> objective, language_code |-> language_code, tags |-> tags,
     schema_version |-> schema_version, nodes |-> nodes, version |-> version,
     created_on |-> created_on, last_updated |-> last_updated]

\* from_dict that builds the nodes from the last node dict to the first.
from_dict_reversed(collection_dict_value, collection_version, collection_created_on, collection_last_updated) ==
    Collection(collection_dict_value["id"], collection_dict_value["title"],
               collection_dict_value["category"],
               collection_dict_value["objective"],
               collection_dict_value["language_code"],
               collection_dict_value["tags"],
               collection_dict_value["schema_version"],
               [i \in DOMAIN collection_dict_value["nodes"] |->
                  CollectionNode_from_dict(
                      collection_dict_value["nodes"][
                          Len(collection_dict_value["nodes"]) + 1 - i])],
               collection_version, collection_created_on,
               collection_last_updated)

\* Collection.from_dict
from_dict(collection_dict_value, collection_version, collection_created_on, collection_last_updated) ==
    Collection(collection_dict_value["id"], collection_dict_value["title"],
               collection_dict_value["category"],
               collection_dict_value["objective"],
               collection_dict_value["language_code"],
               collection_dict_value["tags"],
               collection_dict_value["schema_version"],
               [i \in DOMAIN collection_dict_value["nodes"] |->
                  CollectionNode_from_dict(collection_dict_value["nodes"][i])],
               collection_version, collection_created_on,
               collection_last_updated)

\* Collection.from_dict with the default version and dates.
Collection_from_dict(collection_dict_value) ==
    from_dict(collection_dict_value, 0, None, None)

---------------------------------------------------------------------------
(* The collection dicts given to the migrations: for each schema version   *)
(* the dicts of that version's shape, as the YAML files of that version    *)
(* hold them.                                                              *)

SeqsUpTo(S, n) == UNION {[1..k -> S] : k \in 0..n}

ExplorationIds == {"Exp1", "Exp2"}

\* Skill names, each modelled by its rank in string order.
SkillNames == {1, 2, 3}

Metadata ==
    {[title |-> "A title", category |-> "A category", objective |-> "",
      language_code |-> "en", tags |-> <<>>],
     [title |-> "Another title", category |-> "Maths",
      objective |-> "An objective", language_code |-> "hi",
      tags |-> <<"algebra">>]}

\* Nodes of schema versions 1 to 3: skills are named.
NamedSkillNodes ==
    {[exploration_id |-> e, acquired_skills |-> s[1],
      prerequisite_skills |-> s[2]] :
        e \in ExplorationIds,
        s \in {<< <<1, 2>>, <<>> >>, << <<>>, <<1>> >>, << <<3>>, <<2, 3>> >>}}

\* Nodes of schema versions 4 and 5: skills are referred to by id.
SkillIdNodes ==
    {[exploration_id |-> e, acquired_skill_ids |-> s[1],
      prerequisite_skill_ids |-> s[2]] :
        e \in ExplorationIds,
        s \in {<< <<SkillId(0), SkillId(1)>>, <<>> >>,
               << <<>>, <<SkillId(0)>> >>}}

\* Nodes of schema version 6.
PlainNodes == {[exploration_id |-> e] : e \in ExplorationIds}

SkillsDict ==
    [skill_id \in {SkillId(0), SkillId(1)} |->
        [name |-> skill_id[2] + 1, question_ids |-> <<>>]]

ContentsOfVersion(v) ==
    CASE v \in {1, 2, 3} ->
            {[nodes |-> n] : n \in SeqsUpTo(NamedSkillNodes, MaxDictNodes)}
      [] v = 4 ->
            {[nodes |-> n, skills |-> SkillsDict, next_skill_id |-> 2] :
                n \in SeqsUpTo(SkillIdNodes, MaxDictNodes)}
      [] v = 5 ->
            {[nodes |-> n, skills |-> SkillsDict, next_skill_index |-> 2] :
                n \in SeqsUpTo(SkillIdNodes, MaxDictNodes)}
      [] OTHER ->
            {[nodes |-> n] : n \in SeqsUpTo(PlainNodes, MaxDictNodes)}

\* The dict with the items of d and of e (their keys are disjoint).
Merge(d, e) ==
    [k \in (DOMAIN d) \cup (DOMAIN e) |-> IF k \in DOMAIN d THEN d[k] ELSE e[k]]

DictsOfVersion(v) ==
    {SetKey(
        Merge(c, IF v = 1
                    THEN [title |-> m.title, category |-> m.category,
                          objective |-> m.objective]
                    ELSE m),
        "schema_version", v) :
     c \in ContentsOfVersion(v), m \in Metadata}

InputVersions == 0 .. (CURRENT_COLLECTION_SCHEMA_VERSION + VersionSlack)

\* What dict_from_yaml may hand to _migrate_to_latest_yaml_version: a dict
\* of some version, or a dict that names no schema version.
YamlDicts ==
    (UNION {DictsOfVersion(v) : v \in InputVersions})
    \cup {DelKey(d, "schema_version") :
            d \in DictsOfVersion(CURRENT_COLLECTION_SCHEMA_VERSION)}

CollectionIds == {"cid"}

\* No feature flag service is in play.
IdleFlags ==
    /\ registry = EmptyDict
    /\ registry_log = EmptyDict
    /\ dev_mode = TRUE

\* No CollectionSummary is in play.
IdleSummary ==
    /\ summary = NoObject
    /\ summary0 = NoObject

\* No exploration is being edited.
IdleHandlers ==
    /\ exploration = NoObject
    /\ exploration0 = NoObject
    /\ draft = NoObject
    /\ draft0 = NoObject
    /\ saves = <<>>

\* No story is being viewed.
IdleViewer ==
    /\ viewer_site = NoObject
    /\ learner = NoObject
    /\ learner0 = NoObject

\* No recommendation job is in play.
IdleJobs ==
    /\ recommender = NoObject
    /\ recommender0 = NoObject

IdleServices ==
    IdleFlags /\ IdleSummary /\ IdleHandlers /\ IdleViewer /\ IdleJobs

---------------------------------------------------------------------------
(* Collection.from_yaml, step by step.                                     *)

InitFromYaml ==
    /\ \E d \in YamlDicts : heap = [a \in Addr |-> IF a = "a1" THEN d ELSE EmptyDict]
    /\ heap0 = heap
    /\ pc = "check"
    /\ exc = "none"
    /\ \E id \in CollectionIds : call = [fn |-> "from_yaml", collection_id |-> id]
    /\ ret = NoAddr
    /\ collection_dict = "a1"
    /\ collection_schema_version = Unbound
    /\ applied = <<>>
    /\ collection = NoObject
    /\ collection0 = NoObject
    /\ validation = NotValidated
    /\ IdleServices

\* The checks with the lower end of the version range off by one.
CheckSchemaVersion_from_zero ==
    /\ pc = "check"
    /\ call.fn = "from_yaml"
    /\ IF ~HasKey(heap[collection_dict], "schema_version")
       THEN /\ exc' = "InvalidInputException"
            /\ pc' = "raised"
            /\ UNCHANGED collection_schema_version
       ELSE IF ~(0 <= heap[collection_dict]["schema_version"]
                 /\ heap[collection_dict]["schema_version"]
                        <= CURRENT_COLLECTION_SCHEMA_VERSION)
       THEN /\ exc' = "Exception"
            /\ pc' = "raised"
            /\ UNCHANGED collection_schema_version
       ELSE /\ collection_schema_version' = heap[collection_dict]["schema_version"]
            /\ pc' = "loop"
            /\ UNCHANGED exc
    /\ UNCHANGED <<heap, heap0, call, ret, collection_dict, applied,
                   objectVars>>
    /\ UNCHANGED servicesVars

\* _migrate_to_latest_yaml_version, the checks of the schema version.
CheckSchemaVersion ==
    /\ pc = "check"
    /\ call.fn = "from_yaml"
    /\ IF ~HasKey(heap[collection_dict], "schema_version")
       THEN /\ exc' = "InvalidInputException"
            /\ pc' = "raised"
            /\ UNCHANGED collection_schema_version
       ELSE IF ~(1 <= heap[collection_dict]["schema_version"]
                 /\ heap[collection_dict]["schema_version"]
                        <= CURRENT_COLLECTION_SCHEMA_VERSION)
       THEN /\ exc' = "Exception"
            /\ pc' = "raised"
            /\ UNCHANGED collection_schema_version
       ELSE /\ collection_schema_version' = heap[collection_dict]["schema_version"]
            /\ pc' = "loop"
            /\ UNCHANGED exc
    /\ UNCHANGED <<heap, heap0, call, ret, collection_dict, applied,
                   objectVars>>
    /\ UNCHANGED servicesVars

\* One turn of the while loop of _migrate_to_latest_yaml_version.
ApplyConversion ==
    /\ pc = "loop"
    /\ collection_schema_version < CURRENT_COLLECTION_SCHEMA_VERSION
    /\ IF collection_schema_version \notin ConvertDictVersions
       THEN /\ exc' = "AttributeError"
            /\ pc' = "raised"
            /\ UNCHANGED <<heap, collection_dict, collection_schema_version,
                           applied>>
       ELSE LET res == ConvertDict(collection_schema_version, heap,
                                   collection_dict)
            IN /\ heap' = res.h
               /\ collection_dict' = res.r
               /\ applied' = Append(applied, collection_schema_version)
               /\ collection_schema_version' = collection_schema_version + 1
               /\ UNCHANGED <<exc, pc>>
    /\ UNCHANGED <<heap0, call, ret, objectVars>>
    /\ UNCHANGED servicesVars

\* The loop ends, _migrate_to_latest_yaml_version returns the dict and
\* from_yaml builds the Collection from it.
FromYamlReturn ==
    /\ pc = "loop"
    /\ ~(collection_schema_version < CURRENT_COLLECTION_SCHEMA_VERSION)
    /\ heap' = Store(heap, collection_dict, "id", call.collection_id)
    /\ collection' = Collection_from_dict(heap'[collection_dict])
    /\ ret' = collection_dict
    /\ pc' = "done"
    /\ UNCHANGED <<heap0, exc, call, collection_dict,
                   collection_schema_version, applied, collection0,
                   validation>>
    /\ UNCHANGED servicesVars

NextFromYaml ==
    \/ CheckSchemaVersion
    \/ ApplyConversion
    \/ FromYamlReturn

SpecFromYaml == InitFromYaml /\ [][NextFromYaml]_vars

---------------------------------------------------------------------------
(* A single call of one conversion function on a dict of its version.      *)

\* The dicts a conversion of version v is handed: a whole collection dict
\* (YAML route) or the collection contents alone (storage route).
ConversionInputs(fn, v) ==
    IF fn = "convert_dict"
    THEN DictsOfVersion(v)
    ELSE ContentsOfVersion(v) \cup DictsOfVersion(v)

InitConvert ==
    /\ \E fn \in {"convert_dict", "convert_contents"} :
       \E v \in ConvertDictVersions \cup ConvertContentsVersions :
       \E d \in ConversionInputs(fn, v) :
          /\ call = [fn |-> fn, version |-> v, arg |-> "a1"]
          /\ heap = [a \in Addr |-> IF a = "a1" THEN d ELSE EmptyDict]
    /\ heap0 = heap
    /\ pc = "call"
    /\ exc = "none"
    /\ ret = NoAddr
    /\ collection_dict = NoAddr
    /\ collection_schema_version = Unbound
    /\ applied = <<>>
    /\ collection = NoObject
    /\ collection0 = NoObject
    /\ validation = NotValidated
    /\ IdleServices

\* Collection._convert_v<v>_dict_to_v<v+1>_dict(arg)
CallConvertDict ==
    /\ pc = "call"
    /\ call.fn = "convert_dict"
    /\ LET res == ConvertDict(call.version, heap, call.arg)
       IN /\ heap' = res.h
          /\ ret' = res.r
    /\ pc' = "returned"
    /\ UNCHANGED <<heap0, exc, call, collection_dict,
                   collection_schema_version, applied, objectVars>>
    /\ UNCHANGED servicesVars

\* Collection._convert_collection_contents_v<v>_dict_to_v<v+1>_dict(arg)
CallConvertContents ==
    /\ pc = "call"
    /\ call.fn = "convert_contents"
    /\ LET res == ConvertContents(call.version, heap, call.arg)
       IN /\ heap' = res.h
          /\ ret' = res.r
    /\ pc' = "returned"
    /\ UNCHANGED <<heap0, exc, call, collection_dict,
                   collection_schema_version, applied, objectVars>>
    /\ UNCHANGED servicesVars

NextConvert ==
    \/ CallConvertDict
    \/ CallConvertContents

SpecConvert == InitConvert /\ [][NextConvert]_vars

---------------------------------------------------------------------------
(* Collection.update_collection_contents_from_model                        *)

\* The versioned dict is at a1 and refers to its contents dict at a2.  The
\* contents have the shape of current_version; the stored schema_version
\* and current_version are chosen independently.
InitUpdate ==
    /\ \E sv \in InputVersions : \E cv \in InputVersions :
       \E c \in ContentsOfVersion(cv) :
          /\ call = [fn |-> "update_collection_contents_from_model",
                     versioned_collection_contents |-> "a1",
                     current_version |-> cv]
          /\ heap = [a \in Addr |->
                       IF a = "a1"
                       THEN [schema_version |-> sv, collection_contents |-> "a2"]
                       ELSE c]
    /\ heap0 = heap
    /\ pc = "call"
    /\ exc = "none"
    /\ ret = NoAddr
    /\ collection_dict = NoAddr
    /\ collection_schema_version = Unbound
    /\ applied = <<>>
    /\ collection = NoObject
    /\ collection0 = NoObject
    /\ validation = NotValidated
    /\ IdleServices

\* The update writing the stored version plus one, not current_version + 1.
update_collection_contents_from_model_stored(versioned, current_version) ==
    IF heap[versioned]["schema_version"] + 1 > CURRENT_COLLECTION_SCHEMA_VERSION
    THEN /\ exc' = "Exception"
         /\ pc' = "raised"
         /\ UNCHANGED heap
    ELSE LET h1 == Store(heap, versioned, "schema_version",
                         heap[versioned]["schema_version"] + 1)
         IN IF current_version \notin ConvertContentsVersions
            THEN /\ heap' = h1
                 /\ exc' = "AttributeError"
                 /\ pc' = "raised"
            ELSE LET res == ConvertContents(
                                current_version, h1,
                                h1[versioned]["collection_contents"])
                 IN /\ heap' = Store(res.h, versioned,
                                     "collection_contents", res.r)
                    /\ pc' = "returned"
                    /\ UNCHANGED exc

update_collection_contents_from_model(versioned, current_version) ==
    IF heap[versioned]["schema_version"] + 1 > CURRENT_COLLECTION_SCHEMA_VERSION
    THEN /\ exc' = "Exception"
         /\ pc' = "raised"
         /\ UNCHANGED heap
    ELSE LET h1 == Store(heap, versioned, "schema_version",
                         current_version + 1)
         IN IF current_version \notin ConvertContentsVersions
            THEN /\ heap' = h1
                 /\ exc' = "AttributeError"
                 /\ pc' = "raised"
            ELSE LET res == ConvertContents(
                                current_version, h1,
                                h1[versioned]["collection_contents"])
                 IN /\ heap' = Store(res.h, versioned,
                                     "collection_contents", res.r)
                    /\ pc' = "returned"
                    /\ UNCHANGED exc

CallUpdate ==
    /\ pc = "call"
    /\ call.fn = "update_collection_contents_from_model"
    /\ update_collection_contents_from_model(
            call.versioned_collection_contents, call.current_version)
    /\ UNCHANGED <<heap0, call, ret, collection_dict,
                   collection_schema_version, applied, objectVars>>
    /\ UNCHANGED servicesVars

NextUpdate == CallUpdate

SpecUpdate == InitUpdate /\ [][NextUpdate]_vars

---------------------------------------------------------------------------
(* The node list of a Collection.  A method is an operator from the        *)
(* Collection (and the arguments) to what the call leaves behind:          *)
(* [collection |-> the Collection after the call, exc |-> the exception    *)
(* raised or "none"], or to the value it returns.                          *)

\* Most nodes a collection of the node-list specification grows to.
MaxNodes == 3

NodeExplorationIds == {"exp_id_0", "exp_id_1", "exp_id_2", "exp_id_3"}

\* What a learner may have completed: ids of the collection or not.
CompletedExplorationIds == NodeExplorationIds \cup {"fake_exp_id"}

\* find_node's None.
NoIndex == Unbound

\* A Python list index i on a list of length n: is it in range, and the
\* position (from 1) it denotes.
IndexInRange(n, i) == (0 - n) <= i /\ i < n
Position(n, i) == IF i >= 0 THEN i + 1 ELSE n + i + 1

\* del list[i] for an index in range.
DeleteAt(list, i) ==
    LET p == Position(Len(list), i)
    IN SubSeq(list, 1, p - 1) \o SubSeq(list, p + 1, Len(list))

CollectionNode_create_default_node(exploration_id) ==
    [exploration_id |-> exploration_id]

create_default_collection(collection_id, title, category, objective, language_code) ==
    Collection(collection_id, title, category, objective, language_code,
               <<>>, CURRENT_COLLECTION_SCHEMA_VERSION, <<>>, 0, None, None)

exploration_ids(c) == [i \in DOMAIN c.nodes |-> c.nodes[i].exploration_id]

first_exploration_id(c) ==
    IF Len(c.nodes) > 0 THEN c.nodes[1].exploration_id ELSE None

RECURSIVE FirstNotIn(_, _)
\* for exp_id in ids: if exp_id not in completed: return exp_id
FirstNotIn(ids, completed) ==
    IF ids = <<>> THEN None
    ELSE IF Head(ids) \notin completed THEN Head(ids)
    ELSE FirstNotIn(Tail(ids), completed)

\* The mutant's loop: it starts at the second exploration id.
get_next_exploration_id_skip_first(c, completed_exp_ids) ==
    IF exploration_ids(c) = <<>> THEN None
    ELSE FirstNotIn(Tail(exploration_ids(c)), completed_exp_ids)

get_next_exploration_id(c, completed_exp_ids) ==
    FirstNotIn(exploration_ids(c), completed_exp_ids)

RECURSIVE NextInSequenceFrom(_, _, _)
\* The for loop over RANGE(0, len(nodes) - 1), from (0-based) index on.
NextInSequenceFrom(c, current_exploration_id, index) ==
    IF index >= Len(c.nodes) - 1 THEN None
    ELSE IF c.nodes[index + 1].exploration_id = current_exploration_id
    THEN c.nodes[index + 2].exploration_id
    ELSE NextInSequenceFrom(c, current_exploration_id, index + 1)

\* The mutant returns the node found, not the one after it.
get_next_exploration_id_in_sequence_same(c, current_exploration_id) ==
    IF \E i \in 1..(Len(c.nodes) - 1) :
          c.nodes[i].exploration_id = current_exploration_id
    THEN current_exploration_id
    ELSE None

get_next_exploration_id_in_sequence(c, current_exploration_id) ==
    NextInSequenceFrom(c, current_exploration_id, 0)

\* The (0-based) index of the first node of the exploration, or None.
find_node(c, exploration_id) ==
    IF \E i \in DOMAIN c.nodes : c.nodes[i].exploration_id = exploration_id
    THEN (CHOOSE i \in DOMAIN c.nodes :
            /\ c.nodes[i].exploration_id = exploration_id
            /\ \A j \in 1..(i - 1) :
                  c.nodes[j].exploration_id # exploration_id) - 1
    ELSE NoIndex

\* The first node of the exploration, or None.
get_node(c, exploration_id) ==
    IF \E i \in DOMAIN c.nodes : c.nodes[i].exploration_id = exploration_id
    THEN c.nodes[find_node(c, exploration_id) + 1]
    ELSE NoObject

\* The mutant appends the node without looking for the exploration.
add_node_unchecked(c, exploration_id) ==
    [collection |->
        [c EXCEPT !.nodes =
            Append(@, CollectionNode_create_default_node(exploration_id))],
     exc |-> "none"]

\* The mutant puts the new node first.
add_node_first(c, exploration_id) ==
    IF get_node(c, exploration_id) # NoObject
    THEN [collection |-> c, exc |-> "ValueError"]
    ELSE [collection |->
             [c EXCEPT !.nodes =
                 <<CollectionNode_create_default_node(exploration_id)>> \o @],
          exc |-> "none"]

add_node(c, exploration_id) ==
    IF get_node(c, exploration_id) # NoObject
    THEN [collection |-> c, exc |-> "ValueError"]
    ELSE [collection |->
             [c EXCEPT !.nodes =
                 Append(@, CollectionNode_create_default_node(exploration_id))],
          exc |-> "none"]

\* The mutant swaps without the temporary.
swap_nodes_no_temp(c, first_index, second_index) ==
    IF first_index = second_index
    THEN [collection |-> c, exc |-> "ValueError"]
    ELSE IF ~IndexInRange(Len(c.nodes), first_index)
            \/ ~IndexInRange(Len(c.nodes), second_index)
    THEN [collection |-> c, exc |-> "IndexError"]
    ELSE LET n == Len(c.nodes)
             nodes1 == [c.nodes EXCEPT ![Position(n, first_index)] =
                           c.nodes[Position(n, second_index)]]
             nodes2 == [nodes1 EXCEPT ![Position(n, second_index)] =
                           nodes1[Position(n, first_index)]]
         IN [collection |-> [c EXCEPT !.nodes = nodes2], exc |-> "none"]

swap_nodes(c, first_index, second_index) ==
    IF first_index = second_index
    THEN [collection |-> c, exc |-> "ValueError"]
    ELSE IF ~IndexInRange(Len(c.nodes), first_index)
            \/ ~IndexInRange(Len(c.nodes), second_index)
    THEN [collection |-> c, exc |-> "IndexError"]
    ELSE LET n == Len(c.nodes)
             temp == c.nodes[Position(n, first_index)]
             nodes1 == [c.nodes EXCEPT ![Position(n, first_index)] =
                           c.nodes[Position(n, second_index)]]
             nodes2 == [nodes1 EXCEPT ![Position(n, second_index)] = temp]
         IN [collection |-> [c EXCEPT !.nodes = nodes2], exc |-> "none"]

\* The mutant deletes the last node whatever the index found.
delete_node_last(c, exploration_id) ==
    LET node_index == find_node(c, exploration_id)
    IN IF node_index = NoIndex
       THEN [collection |-> c, exc |-> "ValueError"]
       ELSE [collection |-> [c EXCEPT !.nodes = DeleteAt(@, 0 - 1)],
             exc |-> "none"]

delete_node(c, exploration_id) ==
    LET node_index == find_node(c, exploration_id)
    IN IF node_index = NoIndex
       THEN [collection |-> c, exc |-> "ValueError"]
       ELSE [collection |-> [c EXCEPT !.nodes = DeleteAt(@, node_index)],
             exc |-> "none"]

---------------------------------------------------------------------------
(* A Collection made by create_default_collection, and calls of its node   *)
(* methods in any order.                                                    *)

IdleDicts ==
    /\ heap = [a \in Addr |-> EmptyDict]
    /\ heap0 = heap
    /\ collection_dict = NoAddr
    /\ collection_schema_version = Unbound
    /\ applied = <<>>

InitNodes ==
    /\ IdleDicts
    /\ collection = create_default_collection(
            "collection_id", "A title", "A category", "An objective",
            DEFAULT_LANGUAGE_CODE)
    /\ collection0 = collection
    /\ validation = NotValidated
    /\ call = [fn |-> "create_default_collection"]
    /\ pc = "returned"
    /\ exc = "none"
    /\ ret = None
    /\ IdleServices

\* A call of a method that changes the collection: res is what it leaves.
Mutation(the_call, res) ==
    /\ call' = the_call
    /\ collection0' = collection
    /\ collection' = res.collection
    /\ exc' = res.exc
    /\ pc' = IF res.exc = "none" THEN "returned" ELSE "raised"
    /\ ret' = None
    /\ UNCHANGED <<dictVars, validation>>
    /\ UNCHANGED servicesVars

\* A call of a method that returns a value and changes nothing.
Query(the_call, value) ==
    /\ call' = the_call
    /\ collection0' = collection
    /\ ret' = value
    /\ exc' = "none"
    /\ pc' = "returned"
    /\ UNCHANGED <<dictVars, collection, validation>>
    /\ UNCHANGED servicesVars

AddNode ==
    \E e \in NodeExplorationIds :
        /\ Len(add_node(collection, e).collection.nodes) <= MaxNodes
        /\ Mutation([fn |-> "add_node", exploration_id |-> e],
                    add_node(collection, e))

DeleteNode ==
    \E e \in NodeExplorationIds :
        Mutation([fn |-> "delete_node", exploration_id |-> e],
                 delete_node(collection, e))

SwapNodes ==
    \E i \in (0 - MaxNodes)..MaxNodes : \E j \in (0 - MaxNodes)..MaxNodes :
        Mutation([fn |-> "swap_nodes", first_index |-> i, second_index |-> j],
                 swap_nodes(collection, i, j))

GetNextExplorationId ==
    \E completed \in SUBSET CompletedExplorationIds :
        Query([fn |-> "get_next_exploration_id",
               completed_exp_ids |-> completed],
              get_next_exploration_id(collection, completed))

GetNextExplorationIdInSequence ==
    \E x \in CompletedExplorationIds :
        Query([fn |-> "get_next_exploration_id_in_sequence",
               current_exploration_id |-> x],
              get_next_exploration_id_in_sequence(collection, x))

NextNodes ==
    \/ AddNode
    \/ DeleteNode
    \/ SwapNodes
    \/ GetNextExplorationId
    \/ GetNextExplorationIdInSequence

SpecNodes == InitNodes /\ [][NextNodes]_vars

---------------------------------------------------------------------------
(* Collection.validate.  An attribute of a Python object holds a value of  *)
(* any type, and validate checks the types first; here an attribute's      *)
(* value is a pair <<type, value>>.                                         *)

PyStr(s) == <<"str", s>>
PyInt(n) == <<"int", n>>
PyList(l) == <<"list", l>>
PyDict(d) == <<"dict", d>>

\* isinstance(v, t)
IsInstance(v, t) == v[1] = t
\* The value itself, once its type is known.
Val(v) == v[2]

\* hash(v) succeeds: strings and ints are hashable, lists and dicts are not.
Hashable(v) == v[1] \in {"str", "int"}

\* set(values): the TypeError raised when a value is unhashable.
UnhashableError == "TypeError: unhashable type"

\* Longest node list of a validated collection.
MaxValidatedNodes == 2

\* utils.require_valid_name on the names of the model: "A title" and
\* "A category" pass, and the empty name passes when allow_empty.
require_valid_name(name, allow_empty) ==
    IF name = "" THEN allow_empty ELSE name \in {"A title", "A category"}

\* utils.is_valid_language_code on the codes of the model.
is_valid_language_code(language_code) == language_code \in {"en"}

\* re.match(constants.TAG_REGEX, tag) on the tags of the model: lowercase
\* letters and spaces only.
MatchesTagRegex(tag) == tag \in {"abc", "def", "tag", "   abc", "abc  def"}

\* tag[0] and tag[-1] are in string.ascii_lowercase.
StartsAndEndsLowercase(tag) == tag \in {"abc", "def", "tag", "abc  def"}

\* re.search(r'\s\s+', tag)
HasAdjacentWhitespace(tag) == tag \in {"abc  def"}

\* The body of the loop over the tags, for one tag.
ValidateTag(tag) ==
    IF ~IsInstance(tag, "str")
    THEN "Expected each tag to be a string"
    ELSE IF Val(tag) = ""
    THEN "Tags should be non-empty."
    ELSE IF ~MatchesTagRegex(Val(tag))
    THEN "Tags should only contain lowercase letters and spaces"
    ELSE IF ~StartsAndEndsLowercase(Val(tag))
    THEN "Tags should not start or end with whitespace"
    ELSE IF HasAdjacentWhitespace(Val(tag))
    THEN "Adjacent whitespace in tags should be collapsed"
    ELSE "none"

RECURSIVE FirstError(_)
\* The first entry of a sequence of outcomes that is an error, or "none".
FirstError(outcomes) ==
    IF outcomes = <<>> THEN "none"
    ELSE IF Head(outcomes) # "none" THEN Head(outcomes)
    ELSE FirstError(Tail(outcomes))

CollectionNode_validate(node) ==
    IF ~IsInstance(node.exploration_id, "str")
    THEN "Expected exploration ID to be a string"
    ELSE "none"

\* The checks made when strict.
ValidateStrict(c) ==
    IF Val(c.title) = ""
    THEN "A title must be specified for the collection."
    ELSE IF Val(c.objective) = ""
    THEN "An objective must be specified for the collection."
    ELSE IF Val(c.category) = ""
    THEN "A category must be specified for the collection."
    ELSE IF Val(c.nodes) = <<>>
    THEN "Expected to have at least 1 exploration in the collection."
    ELSE "none"

\* The checks made whatever strict is.
ValidateAlways(c) ==
    IF ~IsInstance(c.title, "str")
    THEN "Expected title to be a string"
    ELSE IF ~require_valid_name(Val(c.title), TRUE)
    THEN "Invalid the collection title"
    ELSE IF ~IsInstance(c.category, "str")
    THEN "Expected category to be a string"
    ELSE IF ~require_valid_name(Val(c.category), TRUE)
    THEN "Invalid the collection category"
    ELSE IF ~IsInstance(c.objective, "str")
    THEN "Expected objective to be a string"
    ELSE IF ~IsInstance(c.language_code, "str")
    THEN "Expected language code to be a string"
    ELSE IF Val(c.language_code) = ""
    THEN "A language must be specified (in the 'Settings' tab)."
    ELSE IF ~is_valid_language_code(Val(c.language_code))
    THEN "Invalid language code"
    ELSE IF ~IsInstance(c.tags, "list")
    THEN "Expected tags to be a list"
    ELSE IF \E i \in DOMAIN Val(c.tags) : ~Hashable(Val(c.tags)[i])
    THEN UnhashableError
    ELSE IF Cardinality(Range(Val(c.tags))) < Len(Val(c.tags))
    THEN "Expected tags to be unique, but found duplicates"
    ELSE IF FirstError([i \in DOMAIN Val(c.tags) |->
                           ValidateTag(Val(c.tags)[i])]) # "none"
    THEN FirstError([i \in DOMAIN Val(c.tags) |-> ValidateTag(Val(c.tags)[i])])
    ELSE IF ~IsInstance(c.schema_version, "int")
    THEN "Expected schema version to be an integer"
    ELSE IF Val(c.schema_version) # CURRENT_COLLECTION_SCHEMA_VERSION
    THEN "Expected schema version to be 6"
    ELSE IF ~IsInstance(c.nodes, "list")
    THEN "Expected nodes to be a list"
    ELSE IF \E i \in DOMAIN Val(c.nodes) :
               ~Hashable(Val(c.nodes)[i].exploration_id)
    THEN UnhashableError
    ELSE IF Cardinality({Val(c.nodes)[i].exploration_id :
                            i \in DOMAIN Val(c.nodes)}) # Len(Val(c.nodes))
    THEN "There are explorations referenced in the collection more than once."
    ELSE FirstError([i \in DOMAIN Val(c.nodes) |->
                        CollectionNode_validate(Val(c.nodes)[i])])

\* The mutant makes the strict checks whatever strict is.
validate_always_strict(c, strict) ==
    IF ValidateAlways(c) # "none" THEN ValidateAlways(c) ELSE ValidateStrict(c)

\* validate(strict): the message of the ValidationError raised, the TypeError
\* raised, or "none".
validate(c, strict) ==
    IF ValidateAlways(c) # "none" THEN ValidateAlways(c)
    ELSE IF strict THEN ValidateStrict(c)
    ELSE "none"

\* The attribute values of the validated collections.
TitleValues == {PyStr(""), PyStr("A title"), PyInt(0)}
CategoryValues == {PyStr(""), PyStr("A category"), PyInt(0)}
ObjectiveValues == {PyStr(""), PyStr("An objective"), PyInt(0)}
LanguageCodeValues == {PyStr("en"), PyStr(""), PyStr("xz"), PyInt(0)}
TagsValues ==
    {PyList(<<>>), PyList(<<PyStr("abc")>>),
     PyList(<<PyStr("abc"), PyStr("def")>>),
     PyList(<<PyStr("abc"), PyStr("abc")>>),
     PyList(<<PyStr(""), PyStr("tag")>>), PyList(<<PyStr("234")>>),
     PyList(<<PyStr("   abc")>>), PyList(<<PyStr("abc  def")>>),
     PyList(<<PyInt(2), PyInt(3)>>), PyList(<<PyInt(2), PyInt(2)>>),
     PyList(<<PyList(<<>>), PyList(<<>>)>>), PyStr("abc")}
SchemaVersionValues ==
    {PyInt(CURRENT_COLLECTION_SCHEMA_VERSION),
     PyInt(CURRENT_COLLECTION_SCHEMA_VERSION - 1),
     PyStr("some_schema_version")}
NodeValues ==
    {[exploration_id |-> PyStr("exp_id_0")],
     [exploration_id |-> PyStr("exp_id_1")],
     [exploration_id |-> PyInt(2)],
     [exploration_id |-> PyList(<<>>)]}
NodesValues ==
    {PyList(l) : l \in SeqsUpTo(NodeValues, MaxValidatedNodes)}
    \cup {PyDict(EmptyDict)}

\* A Collection as its constructor takes it: any values for its attributes.
InitValidate ==
    /\ IdleDicts
    /\ \E title \in TitleValues : \E category \in CategoryValues :
       \E objective \in ObjectiveValues :
       \E language_code \in LanguageCodeValues : \E tags \in TagsValues :
       \E schema_version \in SchemaVersionValues : \E nodes \in NodesValues :
          collection = Collection("collection_id", title, category,
                                  objective, language_code, tags,
                                  schema_version, nodes, 0, None, None)
    /\ collection0 = collection
    /\ validation = NotValidated
    /\ call = [fn |-> "Collection"]
    /\ pc = "returned"
    /\ exc = "none"
    /\ ret = None
    /\ IdleServices

\* collection.validate(strict)
CallValidate ==
    \E strict \in BOOLEAN :
        /\ validation' = [validation EXCEPT ![strict] =
                              validate(collection, strict)]
        /\ UNCHANGED <<dictVars, callVars, collection, collection0>>
        /\ UNCHANGED servicesVars

NextValidate == CallValidate

SpecValidate == InitValidate /\ [][NextValidate]_vars

---------------------------------------------------------------------------
(* Export and import of a Collection: to_dict / from_dict, serialize /     *)
(* deserialize and to_yaml / from_yaml.  A JSON or YAML text is modelled   *)
(* by its document: every value of the dict becomes a node that carries    *)
(* the kind of the value, and parsing reads the values back off the nodes. *)

CollectionNode_to_dict(node) == [exploration_id |-> node.exploration_id]

to_dict(c) ==
    [id |-> c.id, title |-> c.title, category |-> c.category,
     objective |-> c.objective, language_code |-> c.language_code,
     tags |-> c.tags, schema_version |-> c.schema_version,
     nodes |-> [i \in DOMAIN c.nodes |-> CollectionNode_to_dict(c.nodes[i])]]

\* The node of a document for the value under a key of a collection dict.
EncodeValue(key, value) ==
    CASE key \in {"schema_version", "version"} -> <<"int", value>>
      [] key = "tags" ->
            <<"seq", [i \in DOMAIN value |-> <<"str", value[i]>>]>>
      [] key = "nodes" ->
            <<"seq", [i \in DOMAIN value |->
                        <<"map", [k \in DOMAIN value[i] |->
                                    <<"str", value[i][k]>>]>>]>>
      [] OTHER -> <<"str", value>>

\* The value a parser builds from a node.
DecodeValue(key, node) ==
    CASE key = "tags" -> [i \in DOMAIN node[2] |-> node[2][i][2]]
      [] key = "nodes" ->
            [i \in DOMAIN node[2] |->
                [k \in DOMAIN node[2][i][2] |-> node[2][i][2][k][2]]]
      [] OTHER -> node[2]

EncodeDocument(d) == [k \in DOMAIN d |-> EncodeValue(k, d[k])]
DecodeDocument(doc) == [k \in DOMAIN doc |-> DecodeValue(k, doc[k])]

\* python_utils.yaml_from_dict and utils.dict_from_yaml
yaml_from_dict(d) == <<"yaml", EncodeDocument(d)>>
dict_from_yaml(yaml_content) == DecodeDocument(yaml_content[2])

\* json.dumps(...).encode('utf-8') and json.loads(....decode('utf-8'))
json_dumps(d) == <<"json", EncodeDocument(d)>>
json_loads(json_string) == DecodeDocument(json_string[2])

\* The naive datetimes of the model and their strings.
Datetimes == {"datetime(2021, 3, 4, 5, 6, 7)", "datetime(2022, 1, 2, 3, 4, 5)"}

\* utils.convert_naive_datetime_to_string
convert_naive_datetime_to_string(datetime_obj) ==
    IF datetime_obj = "datetime(2021, 3, 4, 5, 6, 7)"
    THEN "03/04/2021, 05:06:07:000000"
    ELSE "01/02/2022, 03:04:05:000000"

\* utils.convert_string_to_naive_datetime_object
convert_string_to_naive_datetime_object(date_time_string) ==
    IF date_time_string = "03/04/2021, 05:06:07:000000"
    THEN "datetime(2021, 3, 4, 5, 6, 7)"
    ELSE "datetime(2022, 1, 2, 3, 4, 5)"

serialize(c) ==
    LET collection_dict_value == SetKey(to_dict(c), "version", c.version)
        with_created_on ==
            IF c.created_on # None
            THEN SetKey(collection_dict_value, "created_on",
                        convert_naive_datetime_to_string(c.created_on))
            ELSE collection_dict_value
        with_last_updated ==
            IF c.last_updated # None
            THEN SetKey(with_created_on, "last_updated",
                        convert_naive_datetime_to_string(c.last_updated))
            ELSE with_created_on
    IN json_dumps(with_last_updated)

\* deserialize that leaves the version to the default of from_dict.
deserialize_default_version(json_string) ==
    LET collection_dict_value == json_loads(json_string)
        created_on ==
            IF HasKey(collection_dict_value, "created_on")
            THEN convert_string_to_naive_datetime_object(
                     collection_dict_value["created_on"])
            ELSE None
        last_updated ==
            IF HasKey(collection_dict_value, "last_updated")
            THEN convert_string_to_naive_datetime_object(
                     collection_dict_value["last_updated"])
            ELSE None
    IN from_dict(collection_dict_value, 0, created_on, last_updated)

deserialize(json_string) ==
    LET collection_dict_value == json_loads(json_string)
        created_on ==
            IF HasKey(collection_dict_value, "created_on")
            THEN convert_string_to_naive_datetime_object(
                     collection_dict_value["created_on"])
            ELSE None
        last_updated ==
            IF HasKey(collection_dict_value, "last_updated")
            THEN convert_string_to_naive_datetime_object(
                     collection_dict_value["last_updated"])
            ELSE None
    IN from_dict(collection_dict_value, collection_dict_value["version"],
                 created_on, last_updated)

\* to_yaml that keeps the id in the YAML.
to_yaml_with_id(c) == yaml_from_dict(to_dict(c))

to_yaml(c) == yaml_from_dict(DelKey(to_dict(c), "id"))

\* The Collection objects exported: any metadata, node list, version and
\* dates, at the current schema version or a later one.
ExportedCollections ==
    {Collection(id, meta.title, meta.category, meta.objective,
                meta.language_code, meta.tags, schema_version, nodes,
                version, created_on, last_updated) :
        id \in CollectionIds, meta \in Metadata,
        schema_version \in CURRENT_COLLECTION_SCHEMA_VERSION
                           ..(CURRENT_COLLECTION_SCHEMA_VERSION + VersionSlack),
        nodes \in SeqsUpTo({CollectionNode_create_default_node(e) :
                               e \in ExplorationIds}, MaxDictNodes),
        version \in {0, 3},
        created_on \in {None} \cup Datetimes,
        last_updated \in {None} \cup Datetimes}

\* The ids given to from_yaml.
ImportIds == CollectionIds \cup {"collection2"}

InitExport ==
    /\ IdleDicts
    /\ collection \in ExportedCollections
    /\ collection0 = collection
    /\ validation = NotValidated
    /\ call = [fn |-> "Collection"]
    /\ pc = "returned"
    /\ exc = "none"
    /\ ret = None
    /\ IdleServices

\* Collection.from_dict(collection.to_dict())
ToDictFromDict ==
    /\ call.fn = "Collection"
    /\ call' = [fn |-> "from_dict"]
    /\ ret' = to_dict(collection)
    /\ collection' = from_dict(ret', 0, None, None)
    /\ UNCHANGED <<dictVars, pc, exc, collection0, validation>>
    /\ UNCHANGED servicesVars

\* Collection.deserialize(collection.serialize())
SerializeDeserialize ==
    /\ call.fn = "Collection"
    /\ call' = [fn |-> "deserialize"]
    /\ ret' = serialize(collection)
    /\ collection' = deserialize(ret')
    /\ UNCHANGED <<dictVars, pc, exc, collection0, validation>>
    /\ UNCHANGED servicesVars

\* collection.to_yaml(), and the call of from_yaml on it up to the parsing of
\* the YAML; the steps of from_yaml follow.
ToYamlFromYaml ==
    /\ call.fn = "Collection"
    /\ \E id \in ImportIds : call' = [fn |-> "from_yaml", collection_id |-> id]
    /\ heap' = [heap EXCEPT !["a1"] = dict_from_yaml(to_yaml(collection))]
    /\ heap0' = heap'
    /\ collection_dict' = "a1"
    /\ pc' = "check"
    /\ ret' = NoAddr
    /\ UNCHANGED <<collection_schema_version, applied, exc, objectVars>>
    /\ UNCHANGED servicesVars

\* The exported schema version is the current one or a later one, so from_yaml
\* never enters the loop of the conversions.
NextExport ==
    \/ ToDictFromDict
    \/ SerializeDeserialize
    \/ ToYamlFromYaml
    \/ CheckSchemaVersion
    \/ FromYamlReturn

SpecExport == InitExport /\ [][NextExport]_vars

---------------------------------------------------------------------------
(* The feature flag service, platform_feature_services.  The feature      *)
(* lists, the registry of platform parameters and the evaluation of a      *)
(* parameter are outside the service: a parameter is a list of rules, a    *)
(* rule matches a context on one of its fields, and a flag evaluates to    *)
(* the value of its first matching rule, False when none matches.          *)

DEV_FEATURES_LIST == <<"dummy_feature">>
TEST_FEATURES_LIST == <<"test_feature">>
PROD_FEATURES_LIST == <<"prod_feature">>

ALL_FEATURES_LIST ==
    DEV_FEATURES_LIST \o TEST_FEATURES_LIST \o PROD_FEATURES_LIST

ALL_FEATURES_NAMES_SET == Range(ALL_FEATURES_LIST)

\* Platform parameters of the registry that are not feature flags.
OtherParameterNames == {"promo_bar_enabled"}

\* The names a caller may give: registered or not, feature or not.
FeatureNameInputs ==
    ALL_FEATURES_NAMES_SET \cup OtherParameterNames \cup {"unknown_feature"}

\* Longest list of rules given to a parameter.
MaxRules == 1

PlatformParameterRules ==
    {[filter_type |-> "server_mode", filter_value |-> "dev",
      value_when_matched |-> TRUE],
     [filter_type |-> "platform_type", filter_value |-> "Web",
      value_when_matched |-> TRUE]}

RuleDictLists == SeqsUpTo(PlatformParameterRules, MaxRules)

\* The registry at start-up: every parameter with no rule.
DefaultRegistry ==
    [name \in ALL_FEATURES_NAMES_SET \cup OtherParameterNames |-> <<>>]

\* _get_server_mode, given constants.DEV_MODE
get_server_mode(is_dev_mode) == IF is_dev_mode THEN "dev" ELSE "prod"

\* platform_parameter_domain.EvaluationContext.from_dict
EvaluationContext_from_dict(client_context_dict, server_context_dict) ==
    [platform_type |-> client_context_dict["platform_type"],
     app_version |-> client_context_dict["app_version"],
     server_mode |-> server_context_dict["server_mode"]]

create_evaluation_context_for_client(client_context_dict, is_dev_mode) ==
    EvaluationContext_from_dict(
        client_context_dict, [server_mode |-> get_server_mode(is_dev_mode)])

\* The server context that is in dev mode whatever constants.DEV_MODE is.
create_evaluation_context_for_server_dev(is_dev_mode) ==
    EvaluationContext_from_dict(
        [platform_type |-> "Backend", app_version |-> None],
        [server_mode |-> "dev"])

create_evaluation_context_for_server(is_dev_mode) ==
    EvaluationContext_from_dict(
        [platform_type |-> "Backend", app_version |-> None],
        [server_mode |-> get_server_mode(is_dev_mode)])

RECURSIVE evaluate(_, _)
\* PlatformParameter.evaluate on a flag: the value of the first rule that
\* matches the context, False when none does.
evaluate(rules, context) ==
    IF rules = <<>> THEN FALSE
    ELSE IF context[Head(rules).filter_type] = Head(rules).filter_value
    THEN Head(rules).value_when_matched
    ELSE evaluate(Tail(rules), context)

\* The calls made to the registry.  The log of a service call tells how
\* many times it made each of them; NoCalls is the log of none.
NoCalls == <<>>
Once(calls) == [c \in calls |-> 1]
GetCall(name) == [op |-> "get_platform_parameter", name |-> name]
EvaluateCall(name) == [op |-> "evaluate", name |-> name]
UpdateCall(name, committer_id, commit_message, new_rule_dicts) ==
    [op |-> "update_platform_parameter", name |-> name,
     committer_id |-> committer_id, commit_message |-> commit_message,
     new_rule_dicts |-> new_rule_dicts]

\* Registry.update_platform_parameter
update_platform_parameter(reg, name, new_rule_dicts) ==
    [reg EXCEPT ![name] = new_rule_dicts]

\* update_feature_flag_rules that leaves the check of the name out.
update_feature_flag_rules_unchecked(reg, feature_name, committer_id, commit_message, new_rule_dicts) ==
    [exc |-> "none",
     registry |-> IF feature_name \in DOMAIN reg
                  THEN update_platform_parameter(reg, feature_name,
                                                 new_rule_dicts)
                  ELSE reg,
     log |-> Once({UpdateCall(feature_name, committer_id, commit_message,
                              new_rule_dicts)})]

update_feature_flag_rules(reg, feature_name, committer_id, commit_message, new_rule_dicts) ==
    IF feature_name \notin ALL_FEATURES_NAMES_SET
    THEN [exc |-> "FeatureFlagNotFoundException", registry |-> reg,
          log |-> NoCalls]
    ELSE [exc |-> "none",
          registry |-> update_platform_parameter(reg, feature_name,
                                                 new_rule_dicts),
          log |-> Once({UpdateCall(feature_name, committer_id, commit_message,
                                   new_rule_dicts)})]

\* The evaluation that finds a name unknown only when the loop comes to
\* it: the registered names have been looked up and evaluated by then.
evaluate_feature_flag_values_for_context_in_loop(reg, feature_names_set, context) ==
    IF feature_names_set \ ALL_FEATURES_NAMES_SET # {}
    THEN [exc |-> "FeatureFlagNotFoundException", ret |-> None,
          log |-> Once({GetCall(feature_name) :
                           feature_name \in feature_names_set
                                            \cap ALL_FEATURES_NAMES_SET})]
    ELSE [exc |-> "none",
          ret |-> [feature_name \in feature_names_set |->
                      evaluate(reg[feature_name], context)],
          log |-> Once({GetCall(feature_name) :
                           feature_name \in feature_names_set}
                       \cup {EvaluateCall(feature_name) :
                                feature_name \in feature_names_set})]

\* _evaluate_feature_flag_values_for_context: the loop looks each name up
\* and evaluates its parameter once.
evaluate_feature_flag_values_for_context(reg, feature_names_set, context) ==
    IF feature_names_set \ ALL_FEATURES_NAMES_SET # {}
    THEN [exc |-> "FeatureFlagNotFoundException", ret |-> None,
          log |-> NoCalls]
    ELSE [exc |-> "none",
          ret |-> [feature_name \in feature_names_set |->
                      evaluate(reg[feature_name], context)],
          log |-> Once({GetCall(feature_name) :
                           feature_name \in feature_names_set}
                       \cup {EvaluateCall(feature_name) :
                                feature_name \in feature_names_set})]

\* The mutant evaluates the features of the dev list only.
evaluate_all_feature_flag_values_for_client_dev_only(reg, context) ==
    evaluate_feature_flag_values_for_context(
        reg, Range(DEV_FEATURES_LIST), context)

evaluate_all_feature_flag_values_for_client(reg, context) ==
    evaluate_feature_flag_values_for_context(
        reg, ALL_FEATURES_NAMES_SET, context)

\* _evaluate_feature_flag_value_for_server
evaluate_feature_flag_value_for_server(reg, feature_name, is_dev_mode) ==
    LET context == create_evaluation_context_for_server(is_dev_mode)
        values == evaluate_feature_flag_values_for_context(
                      reg, {feature_name}, context)
    IN IF values.exc # "none" THEN values
       ELSE [values EXCEPT !.ret = values.ret[feature_name]]

is_feature_enabled(reg, feature_name, is_dev_mode) ==
    evaluate_feature_flag_value_for_server(reg, feature_name, is_dev_mode)

\* The client contexts given by request handlers.
ClientContextDicts ==
    {[platform_type |-> "Web", app_version |-> None],
     [platform_type |-> "Android", app_version |-> "1.0.0"]}

\* No Collection and no CollectionSummary are in play.
IdleObjects ==
    /\ IdleDicts
    /\ collection = NoObject
    /\ collection0 = NoObject
    /\ validation = NotValidated

InitFlags ==
    /\ IdleObjects
    /\ IdleSummary
    /\ IdleHandlers
    /\ IdleViewer
    /\ IdleJobs
    /\ registry = DefaultRegistry
    /\ registry_log = NoCalls
    /\ dev_mode \in BOOLEAN
    /\ call = [fn |-> "import"]
    /\ pc = "returned"
    /\ exc = "none"
    /\ ret = None

\* The end of a call of the service: what it raised or returned, and the
\* calls it made to the registry.
FlagCall(the_call, res) ==
    /\ call' = the_call
    /\ exc' = res.exc
    /\ pc' = IF res.exc = "none" THEN "returned" ELSE "raised"
    /\ ret' = res.ret
    /\ registry_log' = res.log
    /\ UNCHANGED <<dictVars, objectVars, summaryVars, handlerVars, viewerVars,
                   jobVars, dev_mode>>

UpdateFeatureFlagRules ==
    \E feature_name \in FeatureNameInputs : \E new_rule_dicts \in RuleDictLists :
        LET res == update_feature_flag_rules(
                       registry, feature_name, "committer_id",
                       "commit message", new_rule_dicts)
        IN /\ registry' = res.registry
           /\ FlagCall([fn |-> "update_feature_flag_rules",
                        feature_name |-> feature_name,
                        committer_id |-> "committer_id",
                        commit_message |-> "commit message",
                        new_rule_dicts |-> new_rule_dicts],
                       [exc |-> res.exc, ret |-> None, log |-> res.log])

EvaluateAllFeatureFlagValuesForClient ==
    \E client_context_dict \in ClientContextDicts :
        LET context == create_evaluation_context_for_client(
                           client_context_dict, dev_mode)
        IN /\ FlagCall([fn |-> "evaluate_all_feature_flag_values_for_client",
                        context |-> context],
                       evaluate_all_feature_flag_values_for_client(
                           registry, context))
           /\ UNCHANGED registry

IsFeatureEnabled ==
    \E feature_name \in FeatureNameInputs :
        /\ FlagCall([fn |-> "is_feature_enabled",
                     feature_name |-> feature_name],
                    is_feature_enabled(registry, feature_name, dev_mode))
        /\ UNCHANGED registry

EvaluateFeatureFlagValuesForContext ==
    \E feature_names_set \in SUBSET FeatureNameInputs :
    \E client_context_dict \in ClientContextDicts :
        LET context == create_evaluation_context_for_client(
                           client_context_dict, dev_mode)
        IN /\ FlagCall([fn |-> "_evaluate_feature_flag_values_for_context",
                        feature_names_set |-> feature_names_set,
                        context |-> context],
                       evaluate_feature_flag_values_for_context(
                           registry, feature_names_set, context))
           /\ UNCHANGED registry

NextFlags ==
    \/ UpdateFeatureFlagRules
    \/ EvaluateAllFeatureFlagValuesForClient
    \/ IsFeatureEnabled
    \/ EvaluateFeatureFlagValuesForContext

SpecFlags == InitFlags /\ [][NextFlags]_vars

---------------------------------------------------------------------------
(* CollectionSummary.add_contribution_by_user.  Of a CollectionSummary the *)
(* model keeps the two attributes the method reads and writes.             *)

\* feconf.SYSTEM_COMMITTER_ID, one of constants.SYSTEM_USER_IDS
SYSTEM_COMMITTER_ID == "admin"
SYSTEM_USER_IDS == {SYSTEM_COMMITTER_ID}

ContributorIds == {"user_id", "contributor_id"} \cup SYSTEM_USER_IDS

\* Highest count of contributions of one user.
MaxContributions == 2

\* The orders in which the keys of a dict may come.
IterationOrders(S) ==
    {order \in [1..Cardinality(S) -> S] :
        \A i, j \in 1..Cardinality(S) : i # j => order[i] # order[j]}

\* CollectionSummary.__init__
CollectionSummary(contributor_ids, contributors_summary) ==
    [contributor_ids |-> contributor_ids,
     contributors_summary |-> contributors_summary]

\* dict.get(key, default)
Get(d, key, default) == IF HasKey(d, key) THEN d[key] ELSE default

\* add_contribution_by_user that keeps the list of contributor ids and
\* appends the contributor to it when new.
add_contribution_by_user_append(s, contributor_id, key_order) ==
    CollectionSummary(
        IF contributor_id \in SYSTEM_USER_IDS
              \/ contributor_id \in Range(s.contributor_ids)
        THEN s.contributor_ids
        ELSE Append(s.contributor_ids, contributor_id),
        IF contributor_id \notin SYSTEM_USER_IDS
        THEN SetKey(s.contributors_summary, contributor_id,
                    Get(s.contributors_summary, contributor_id, 0) + 1)
        ELSE s.contributors_summary)

\* add_contribution_by_user that counts system users as well.
add_contribution_by_user_any(s, contributor_id, key_order) ==
    CollectionSummary(
        key_order,
        SetKey(s.contributors_summary, contributor_id,
               Get(s.contributors_summary, contributor_id, 0) + 1))

\* key_order is the order in which list(self.contributors_summary.keys())
\* gives the keys of the dict.
add_contribution_by_user(s, contributor_id, key_order) ==
    CollectionSummary(
        key_order,
        IF contributor_id \notin SYSTEM_USER_IDS
        THEN SetKey(s.contributors_summary, contributor_id,
                    Get(s.contributors_summary, contributor_id, 0) + 1)
        ELSE s.contributors_summary)

\* The summaries as the constructor takes them: any counts for any users,
\* and a list of contributor ids that need not be the keys of the counts.
InitialSummaries ==
    {CollectionSummary(ids, counts) :
        ids \in SeqsUpTo(ContributorIds, 1),
        counts \in UNION {[users -> 0..MaxContributions] :
                             users \in SUBSET ContributorIds}}

InitSummary ==
    /\ IdleObjects
    /\ IdleFlags
    /\ IdleHandlers
    /\ IdleViewer
    /\ IdleJobs
    /\ summary \in InitialSummaries
    /\ summary0 = summary
    /\ call = [fn |-> "CollectionSummary"]
    /\ pc = "returned"
    /\ exc = "none"
    /\ ret = None

AddContributionByUser ==
    \E contributor_id \in ContributorIds :
        /\ Get(summary.contributors_summary, contributor_id, 0)
              < MaxContributions
        /\ \E key_order \in IterationOrders(
                   DOMAIN add_contribution_by_user(
                              summary, contributor_id, <<>>
                          ).contributors_summary) :
              summary' = add_contribution_by_user(summary, contributor_id,
                                                  key_order)
        /\ summary0' = summary
        /\ call' = [fn |-> "add_contribution_by_user",
                    contributor_id |-> contributor_id]
        /\ UNCHANGED <<dictVars, objectVars, flagVars, handlerVars, viewerVars,
                       jobVars, pc, exc, ret>>

NextSummary == AddContributionByUser

SpecSummary == InitSummary /\ [][NextSummary]_vars

---------------------------------------------------------------------------
(* The exploration editor handlers as the voice artist tests drive them:   *)
(* PUT /createhandler/data/<exp_id> saves a change list, and               *)
(* PUT /createhandler/autosave_draft/<exp_id> stores a draft.  Of the      *)
(* exploration the model keeps its version and the properties the change   *)
(* lists of the tests edit; the exploration has one state.                 *)

\* rights_domain.ROLE_VOICE_ARTIST, rights_domain.ROLE_OWNER
ROLE_VOICE_ARTIST == "voice artist"
ROLE_OWNER == "owner"
Roles == {ROLE_VOICE_ARTIST, ROLE_OWNER}

\* Highest exploration version a save is made against.
MaxVersion == 2

\* Highest draft_change_list_id an autosave is made against.
MaxDraftId == 2

VoiceoverChange ==
    [cmd |-> "edit_state_property",
     property_name |-> "recorded_voiceovers",
     new_value |-> "RECORDED_VOICEOVERS"]

ObjectiveChange ==
    [cmd |-> "edit_exploration_property",
     property_name |-> "objective",
     new_value |-> "the objective"]

TitleChange ==
    [cmd |-> "edit_exploration_property",
     property_name |-> "title",
     new_value |-> "New title"]

ContentChange ==
    [cmd |-> "edit_state_property",
     property_name |-> "content",
     new_value |-> "New content"]

VALID_DRAFT_CHANGELIST == <<VoiceoverChange>>
INVALID_DRAFT_CHANGELIST == <<TitleChange>>

\* The change lists of the requests.
ChangeLists ==
    {VALID_DRAFT_CHANGELIST, INVALID_DRAFT_CHANGELIST, <<ObjectiveChange>>,
     <<ContentChange>>, <<VoiceoverChange, ObjectiveChange>>}

\* The exploration save_new_valid_exploration stores, once published.
NewValidExploration ==
    [version |-> 1,
     title |-> "A title",
     objective |-> "An objective",
     content |-> "",
     recorded_voiceovers |-> "no voiceovers"]

\* The ExplorationUserDataModel the autosave tests put.
StoredDraft ==
    [draft_change_list |-> VALID_DRAFT_CHANGELIST,
     draft_change_list_exp_version |-> 1,
     draft_change_list_id |-> 1]

VoiceArtistPermissionError ==
    "Voice artist does not have permission to make some changes in the change list."

\* A voice artist may make a change list whose changes all edit the
\* recorded_voiceovers of a state; this one lets through a change list
\* that holds one such change.
is_voiceover_change_list_some(change_list) ==
    \E i \in 1..Len(change_list) :
        /\ change_list[i].cmd = "edit_state_property"
        /\ change_list[i].property_name = "recorded_voiceovers"

is_voiceover_change_list(change_list) ==
    \A i \in 1..Len(change_list) :
        /\ change_list[i].cmd = "edit_state_property"
        /\ change_list[i].property_name = "recorded_voiceovers"

\* The check of the payload version that only asks for a version.
require_valid_version_present(payload, exploration_version) ==
    IF ~HasKey(payload, "version")
    THEN "Invalid POST request: a version must be specified."
    ELSE "none"

\* The error the payload version raises, or "none".
require_valid_version(payload, exploration_version) ==
    IF ~HasKey(payload, "version")
    THEN "Invalid POST request: a version must be specified."
    ELSE IF payload.version # exploration_version
    THEN "Trying to update version " \o ToString(exploration_version)
         \o " of exploration from version " \o ToString(payload.version)
         \o ", which is not possible. Please reload the page and try again."
    ELSE "none"

RECURSIVE apply_change_list(_, _)
apply_change_list(exp, change_list) ==
    IF change_list = <<>>
    THEN exp
    ELSE apply_change_list(
             [exp EXCEPT ![Head(change_list).property_name] =
                             Head(change_list).new_value],
             Tail(change_list))

\* The exploration after a commit of the change list.
update_exploration(exp, change_list) ==
    [apply_change_list(exp, change_list) EXCEPT !.version = exp.version + 1]

\* PUT /createhandler/data/<exp_id>: what is stored afterwards, the
\* exception raised, and the response.
ExplorationHandler_put(exp, role, payload) ==
    LET error == require_valid_version(payload, exp.version)
        updated == update_exploration(exp, payload.change_list)
    IN  IF error # "none"
        THEN [exploration |-> exp, exc |-> error, response |-> None]
        ELSE IF /\ role = ROLE_VOICE_ARTIST
                /\ ~is_voiceover_change_list(payload.change_list)
        THEN [exploration |-> exp,
              exc |-> "none",
              response |-> [status_code |-> 400,
                            error |-> VoiceArtistPermissionError]]
        ELSE [exploration |-> updated,
              exc |-> "none",
              response |-> [status_code |-> 200,
                            version |-> updated.version,
                            recorded_voiceovers |->
                                updated.recorded_voiceovers]]

\* The autosave that stores the draft under the id it had.
EditorAutosaveHandler_put_same_id(exp, stored_draft, payload) ==
    IF ~is_voiceover_change_list(payload.change_list)
    THEN [draft |-> stored_draft,
          response |-> [status_code |-> 400,
                        error |-> VoiceArtistPermissionError]]
    ELSE [draft |-> [draft_change_list |-> payload.change_list,
                     draft_change_list_exp_version |-> payload.version,
                     draft_change_list_id |->
                         stored_draft.draft_change_list_id],
          response |-> [status_code |-> 200,
                        is_version_of_draft_valid |->
                            payload.version = exp.version,
                        draft_change_list_id |->
                            stored_draft.draft_change_list_id]]

\* PUT /createhandler/autosave_draft/<exp_id> of a voice artist: the draft
\* stored afterwards and the response.
EditorAutosaveHandler_put(exp, stored_draft, payload) ==
    IF ~is_voiceover_change_list(payload.change_list)
    THEN [draft |-> stored_draft,
          response |-> [status_code |-> 400,
                        error |-> VoiceArtistPermissionError]]
    ELSE [draft |-> [draft_change_list |-> payload.change_list,
                     draft_change_list_exp_version |-> payload.version,
                     draft_change_list_id |->
                         stored_draft.draft_change_list_id + 1],
          response |-> [status_code |-> 200,
                        is_version_of_draft_valid |->
                            payload.version = exp.version,
                        draft_change_list_id |->
                            stored_draft.draft_change_list_id + 1]]

\* The versions a payload may carry: those the exploration has had, and
\* one it has not reached.
PayloadVersions == 1..(MaxVersion + 2)

\* The payloads of a save: with or without a version.
DataPayloads ==
    {[change_list |-> change_list, version |-> version] :
        change_list \in ChangeLists, version \in PayloadVersions}
    \cup {[change_list |-> change_list] : change_list \in ChangeLists}

AutosavePayloads ==
    {[change_list |-> change_list, version |-> version] :
        change_list \in ChangeLists, version \in PayloadVersions}

InitHandlers ==
    /\ IdleObjects
    /\ IdleFlags
    /\ IdleSummary
    /\ IdleViewer
    /\ IdleJobs
    /\ exploration = NewValidExploration
    /\ exploration0 = exploration
    /\ draft = StoredDraft
    /\ draft0 = draft
    /\ saves = <<>>
    /\ call = [fn |-> "setUp"]
    /\ pc = "returned"
    /\ exc = "none"
    /\ ret = None

PutExplorationData ==
    \E role \in Roles, payload \in DataPayloads :
        LET result == ExplorationHandler_put(exploration, role, payload)
        IN  /\ exploration.version <= MaxVersion
            /\ exploration' = result.exploration
            /\ exploration0' = exploration
            /\ draft0' = draft
            /\ saves' = IF result.exploration.version # exploration.version
                        THEN Append(saves, payload.version)
                        ELSE saves
            /\ exc' = result.exc
            /\ ret' = result.response
            /\ call' = [fn |-> "ExplorationHandler.put",
                        role |-> role,
                        payload |-> payload]
            /\ UNCHANGED <<dictVars, objectVars, flagVars, summaryVars,
                           viewerVars, jobVars, pc, draft>>

PutAutosaveDraft ==
    \E payload \in AutosavePayloads :
        LET result == EditorAutosaveHandler_put(exploration, draft, payload)
        IN  /\ draft.draft_change_list_id <= MaxDraftId
            /\ draft' = result.draft
            /\ draft0' = draft
            /\ exploration0' = exploration
            /\ exc' = "none"
            /\ ret' = result.response
            /\ call' = [fn |-> "EditorAutosaveHandler.put",
                        role |-> ROLE_VOICE_ARTIST,
                        payload |-> payload]
            /\ UNCHANGED <<dictVars, objectVars, flagVars, summaryVars,
                           viewerVars, jobVars, pc, exploration, saves>>

NextHandlers ==
    \/ PutExplorationData
    \/ PutAutosaveDraft

SpecHandlers == InitHandlers /\ [][NextHandlers]_vars

---------------------------------------------------------------------------
(* The story progress handler as the story viewer tests drive it: a POST   *)
(* to STORY_PROGRESS_URL_PREFIX/.../<story_url_fragment>/<node_id> by the  *)
(* learner who is logged in.  The topic of the tests has the story of      *)
(* setUp and the single node story of the later tests as its canonical     *)
(* stories.                                                                *)

TOPIC_ID == "topic_id"
STORY_ID == "story_id"
NEW_STORY_ID == "new_story_id"

\* The story of setUp: it starts at node_2 and goes on to node_1 and node_3.
StoryOfSetUp ==
    [initial_node_id |-> "node_2",
     nodes |-> <<[id |-> "node_1", destination_node_ids |-> <<"node_3">>,
                  exploration_id |-> "1"],
                 [id |-> "node_2", destination_node_ids |-> <<"node_1">>,
                  exploration_id |-> "0"],
                 [id |-> "node_3", destination_node_ids |-> <<>>,
                  exploration_id |-> "7"]>>]

SingleNodeStory ==
    [initial_node_id |-> "node_1",
     nodes |-> <<[id |-> "node_1", destination_node_ids |-> <<>>,
                  exploration_id |-> "exp_3"]>>]

Stories == [story_id |-> StoryOfSetUp, new_story_id |-> SingleNodeStory]

\* The canonical story references of the topic.
CanonicalStoryIds == {STORY_ID, NEW_STORY_ID}

\* The story a url fragment names.
StoryUrlFragments == ("title-one" :> STORY_ID) @@ ("story-two" :> NEW_STORY_ID)

StoryUrlFragmentInputs == DOMAIN StoryUrlFragments \cup {"invalid-story"}
NodeIdInputs == {"node_1", "node_2", "node_3", "invalid_node"}

NodeIdsOf(story) == {story.nodes[i].id : i \in DOMAIN story.nodes}

RECURSIVE OrderedNodesFrom(_, _, _)
\* The node of the id and those that follow it along the first destination
\* node id, at most remaining of them.
OrderedNodesFrom(story, node_id, remaining) ==
    IF remaining = 0 THEN <<>>
    ELSE LET node == CHOOSE n \in Range(story.nodes) : n.id = node_id
         IN <<node>> \o
            (IF node.destination_node_ids = <<>> THEN <<>>
             ELSE OrderedNodesFrom(story, node.destination_node_ids[1],
                                   remaining - 1))

\* StoryContents.get_ordered_nodes
get_ordered_nodes(story) ==
    OrderedNodesFrom(story, story.initial_node_id, Len(story.nodes))

RECURSIVE FirstUncompleted(_, _)
\* The first of the nodes whose id is not among the completed ones, or
\* NoObject.
FirstUncompleted(nodes, completed_node_ids) ==
    IF nodes = <<>> THEN NoObject
    ELSE IF Head(nodes).id \notin completed_node_ids THEN Head(nodes)
    ELSE FirstUncompleted(Tail(nodes), completed_node_ids)

\* story_services.record_completed_node_in_story_context
record_completed_node_in_story_context(l, story_id, node_id) ==
    [l EXCEPT !.completed_node_ids[story_id] = @ \cup {node_id}]

\* The recording that answers with the node that follows the completed one.
record_node_completion_following(l, story_id, node_id, ordered_nodes) ==
    IF node_id \in l.completed_node_ids[story_id]
    THEN [learner |-> l, next_node_id |-> None, next_exp_ids |-> <<>>]
    ELSE LET node == CHOOSE n \in Range(ordered_nodes) : n.id = node_id
             following == IF node.destination_node_ids = <<>> THEN NoObject
                          ELSE CHOOSE n \in Range(ordered_nodes) :
                                  n.id = node.destination_node_ids[1]
         IN [learner |->
                 record_completed_node_in_story_context(l, story_id, node_id),
             next_node_id |->
                 IF following = NoObject THEN None ELSE following.id,
             next_exp_ids |->
                 IF following = NoObject THEN <<>>
                 ELSE <<following.exploration_id>>]

\* The node is recorded as completed unless it was, and the next node is
\* the first of the story's order that the learner has not completed.
record_node_completion(l, story_id, node_id, ordered_nodes) ==
    IF node_id \in l.completed_node_ids[story_id]
    THEN [learner |-> l, next_node_id |-> None, next_exp_ids |-> <<>>]
    ELSE LET recorded ==
                 record_completed_node_in_story_context(l, story_id, node_id)
             next == FirstUncompleted(
                         ordered_nodes, recorded.completed_node_ids[story_id])
         IN [learner |-> recorded,
             next_node_id |-> IF next = NoObject THEN None ELSE next.id,
             next_exp_ids |-> IF next = NoObject THEN <<>>
                              ELSE <<next.exploration_id>>]

\* learner_progress_services.mark_topic_as_learnt, and the removal of the
\* topic from the learner's goals.
mark_topic_as_learnt(l, topic_id) ==
    [l EXCEPT !.learnt_topic_ids = @ \cup {topic_id},
              !.partially_learnt_topic_ids = @ \ {topic_id},
              !.topic_ids_to_learn = @ \ {topic_id}]

\* The progress records that forget the goal never.
update_learner_progress_keeping_goal(l, story_id) ==
    IF NodeIdsOf(Stories[story_id]) \subseteq l.completed_node_ids[story_id]
    THEN [l EXCEPT !.completed_story_ids = @ \cup {story_id},
                   !.incomplete_story_ids = @ \ {story_id},
                   !.learnt_topic_ids = @ \cup {TOPIC_ID},
                   !.partially_learnt_topic_ids = @ \ {TOPIC_ID}]
    ELSE [l EXCEPT !.incomplete_story_ids = @ \cup {story_id},
                   !.partially_learnt_topic_ids = @ \cup {TOPIC_ID}]

\* The progress records after a node of the story was posted: the story is
\* completed or started, and the topic learnt or started.  The topic is
\* marked as learnt when the completed stories of the learner hold one of
\* its canonical stories.
update_learner_progress(l, story_id) ==
    IF NodeIdsOf(Stories[story_id]) \subseteq l.completed_node_ids[story_id]
    THEN LET completed == [l EXCEPT !.completed_story_ids = @ \cup {story_id},
                                    !.incomplete_story_ids = @ \ {story_id}]
         IN IF CanonicalStoryIds \cap completed.completed_story_ids # {}
            THEN mark_topic_as_learnt(completed, TOPIC_ID)
            ELSE completed
    ELSE [l EXCEPT !.incomplete_story_ids = @ \cup {story_id},
                   !.partially_learnt_topic_ids = @ \cup {TOPIC_ID}]

\* StoryProgressHandler.post: the progress records afterwards and the
\* response.
StoryProgressHandler_post(site, l, story_url_fragment, node_id) ==
    IF \/ ~site.ENABLE_NEW_STRUCTURE_VIEWER_UPDATES
       \/ story_url_fragment \notin DOMAIN StoryUrlFragments
       \/ StoryUrlFragments[story_url_fragment]
              \notin site.published_story_ids
       \/ node_id \notin NodeIdsOf(Stories[StoryUrlFragments[story_url_fragment]])
    THEN [learner |-> l, response |-> [status_code |-> 404]]
    ELSE LET story_id == StoryUrlFragments[story_url_fragment]
             recorded == record_node_completion(
                             l, story_id, node_id,
                             get_ordered_nodes(Stories[story_id]))
         IN [learner |-> update_learner_progress(recorded.learner, story_id),
             response |->
                 [status_code |-> 200,
                  next_node_id |-> recorded.next_node_id,
                  summaries |-> [i \in DOMAIN recorded.next_exp_ids |->
                                    [id |-> recorded.next_exp_ids[i]]]]]

\* The learner of setUp: node_2 of the story is completed, no story and no
\* topic is on a list yet.
LearnerOfSetUp(topic_ids_to_learn) ==
    [completed_node_ids |-> [story_id |-> {"node_2"}, new_story_id |-> {}],
     incomplete_story_ids |-> {},
     completed_story_ids |-> {},
     partially_learnt_topic_ids |-> {},
     learnt_topic_ids |-> {},
     topic_ids_to_learn |-> topic_ids_to_learn]

InitViewer ==
    /\ IdleObjects
    /\ IdleFlags
    /\ IdleSummary
    /\ IdleHandlers
    /\ IdleJobs
    /\ viewer_site \in [published_story_ids : SUBSET CanonicalStoryIds,
                        ENABLE_NEW_STRUCTURE_VIEWER_UPDATES : BOOLEAN]
    /\ \E topic_ids_to_learn \in SUBSET {TOPIC_ID} :
          learner = LearnerOfSetUp(topic_ids_to_learn)
    /\ learner0 = learner
    /\ call = [fn |-> "setUp"]
    /\ pc = "returned"
    /\ exc = "none"
    /\ ret = None

PostStoryProgress ==
    \E story_url_fragment \in StoryUrlFragmentInputs, node_id \in NodeIdInputs :
        LET result == StoryProgressHandler_post(
                          viewer_site, learner, story_url_fragment, node_id)
        IN  /\ learner' = result.learner
            /\ learner0' = learner
            /\ ret' = result.response
            /\ call' = [fn |-> "StoryProgressHandler.post",
                        story_url_fragment |-> story_url_fragment,
                        node_id |-> node_id]
            /\ UNCHANGED <<dictVars, objectVars, flagVars, summaryVars,
                           handlerVars, jobVars, viewer_site, pc, exc>>

\* A node is recorded as completed without a request, as the tests do.
RecordCompletedNode ==
    \E story_id \in CanonicalStoryIds :
    \E node_id \in NodeIdsOf(Stories[story_id]) :
        /\ learner' = record_completed_node_in_story_context(
                          learner, story_id, node_id)
        /\ learner0' = learner
        /\ ret' = None
        /\ call' = [fn |-> "record_completed_node_in_story_context",
                    story_id |-> story_id,
                    node_id |-> node_id]
        /\ UNCHANGED <<dictVars, objectVars, flagVars, summaryVars,
                       handlerVars, jobVars, viewer_site, pc, exc>>

NextViewer ==
    \/ PostStoryProgress
    \/ RecordCompletedNode

SpecViewer == InitViewer /\ [][NextViewer]_vars

---------------------------------------------------------------------------
(* The one-off job that computes exploration recommendations, as its tests *)
(* drive it: the job is enqueued, the pending tasks are processed, and the *)
(* recommendations stored for an exploration are read.  The ranking of the *)
(* recommendations by similarity is left out: a list of recommendations is *)
(* kept as the set of its exploration ids.                                 *)

RecommendedExplorationIds == {"exp_id_1", "exp_id_2", "exp_id_3", "exp_id_4"}

\* Most jobs waiting in the queue of one-off jobs.
MaxQueuedJobs == 2

\* exp_services.get_non_private_exploration_summaries: their ids.
get_non_private_exploration_summaries(status) ==
    {exp_id \in DOMAIN status : status[exp_id] # "private"}

\* The recommendations that take every other exploration, private or not.
compute_recommendations_of_all(status, exp_id) ==
    DOMAIN status \ {exp_id}

\* The recommendations computed for an exploration: the other explorations
\* that are not private.
compute_recommendations(status, exp_id) ==
    get_non_private_exploration_summaries(status) \ {exp_id}

\* A run of ExplorationRecommendationsOneOffJob: the recommendations of
\* every exploration that is not private are computed and stored; those
\* stored for a private exploration stay.
ExplorationRecommendationsOneOffJob_run(r) ==
    [r EXCEPT
        !.recommendations =
            [exp_id \in DOMAIN r.status |->
                IF exp_id \in get_non_private_exploration_summaries(r.status)
                THEN compute_recommendations(r.status, exp_id)
                ELSE r.recommendations[exp_id]],
        !.computed = get_non_private_exploration_summaries(r.status)]

\* The explorations of the tests are public and nothing is stored or
\* queued yet.
InitJobs ==
    /\ IdleObjects
    /\ IdleFlags
    /\ IdleSummary
    /\ IdleHandlers
    /\ IdleViewer
    /\ recommender =
           [status |-> [exp_id \in RecommendedExplorationIds |-> "public"],
            queue |-> 0,
            recommendations |-> [exp_id \in RecommendedExplorationIds |-> {}],
            computed |-> {}]
    /\ recommender0 = recommender
    /\ call = [fn |-> "setUp"]
    /\ pc = "returned"
    /\ exc = "none"
    /\ ret = None

\* A call on the explorations, the queue or the recommendations.
JobCall(the_call, after) ==
    /\ recommender' = after
    /\ recommender0' = recommender
    /\ call' = the_call
    /\ UNCHANGED <<dictVars, objectVars, flagVars, summaryVars, handlerVars,
                   viewerVars, pc, exc, ret>>

\* job_class.enqueue(job_class.create_new())
EnqueueJob ==
    /\ recommender.queue < MaxQueuedJobs
    /\ JobCall([fn |-> "enqueue"],
               [recommender EXCEPT !.queue = @ + 1])

\* process_and_flush_pending_mapreduce_tasks
ProcessAndFlushPendingTasks ==
    \/ /\ recommender.queue = 0
       /\ JobCall([fn |-> "process_and_flush_pending_mapreduce_tasks"],
                  recommender)
    \/ /\ recommender.queue > 0
       /\ JobCall([fn |-> "process_and_flush_pending_mapreduce_tasks"],
                  [ExplorationRecommendationsOneOffJob_run(recommender)
                      EXCEPT !.queue = 0])

\* rights_manager.unpublish_exploration
UnpublishExploration ==
    \E exp_id \in RecommendedExplorationIds :
        /\ recommender.status[exp_id] = "public"
        /\ JobCall([fn |-> "unpublish_exploration", exp_id |-> exp_id],
                   [recommender EXCEPT !.status[exp_id] = "private"])

\* rights_manager.publish_exploration
PublishExploration ==
    \E exp_id \in RecommendedExplorationIds :
        /\ recommender.status[exp_id] = "private"
        /\ JobCall([fn |-> "publish_exploration", exp_id |-> exp_id],
                   [recommender EXCEPT !.status[exp_id] = "public"])

NextJobs ==
    \/ EnqueueJob
    \/ ProcessAndFlushPendingTasks
    \/ UnpublishExploration
    \/ PublishExploration

SpecJobs == InitJobs /\ [][NextJobs]_vars

---------------------------------------------------------------------------
(* Properties of the schema migrations.                                    *)

\* The dict from_yaml was handed, as it was parsed.
YamlInput == heap0["a1"]

ValidInputVersion ==
    /\ HasKey(YamlInput, "schema_version")
    /\ 1 <= YamlInput["schema_version"]
    /\ YamlInput["schema_version"] <= CURRENT_COLLECTION_SCHEMA_VERSION

\* The conversions v, v+1, ..., w-1 in this order.
ConversionsFromTo(v, w) == [i \in 1..(w - v) |-> v + i - 1]

C1_StepsInOrder ==
    /\ ValidInputVersion =>
         /\ exc = "none"
         /\ pc \in {"loop", "done"} =>
              /\ collection_schema_version <= CURRENT_COLLECTION_SCHEMA_VERSION
              /\ applied = ConversionsFromTo(YamlInput["schema_version"],
                                             collection_schema_version)
         /\ pc = "done" =>
              /\ applied = ConversionsFromTo(YamlInput["schema_version"],
                                             CURRENT_COLLECTION_SCHEMA_VERSION)
              /\ heap[ret]["schema_version"] = CURRENT_COLLECTION_SCHEMA_VERSION
              /\ collection["schema_version"]
                    = CURRENT_COLLECTION_SCHEMA_VERSION
    /\ \A v \in 1..(CURRENT_COLLECTION_SCHEMA_VERSION - 1) :
          v \in ConvertDictVersions
    /\ CURRENT_COLLECTION_SCHEMA_VERSION \notin ConvertDictVersions

\* While the call is under way it has a step to take: the checks, a turn of
\* the loop for which the conversion is defined, or the return.
C1_NeverStuck ==
    /\ pc # "raised"
    /\ pc = "check" => ENABLED CheckSchemaVersion
    /\ (pc = "loop" /\ collection_schema_version
                          < CURRENT_COLLECTION_SCHEMA_VERSION) =>
          collection_schema_version \in ConvertDictVersions
    /\ (pc = "loop" /\ collection_schema_version
                          >= CURRENT_COLLECTION_SCHEMA_VERSION) =>
          ENABLED FromYamlReturn

\* C1: from a dict of schema version v in 1..CURRENT, from_yaml terminates,
\* having applied exactly the conversions v->v+1, ..., CURRENT-1->CURRENT, in
\* increasing order and each once, and the dict it returns is of the current
\* schema version; a conversion v->v+1 is defined for every v in
\* 1..CURRENT-1 and none for CURRENT.  Termination: the call is never stuck
\* short of its return, and every turn of the loop moves the version up by
\* one towards CURRENT, where the loop ends.
C1_MigratesToLatest ==
    /\ []C1_StepsInOrder
    /\ [](ValidInputVersion => C1_NeverStuck)
    /\ [][pc = "loop" =>
            \/ pc' = "done"
            \/ /\ pc' = "loop"
               /\ collection_schema_version' = collection_schema_version + 1
               /\ collection_schema_version'
                     <= CURRENT_COLLECTION_SCHEMA_VERSION]_vars

C1_Witness ==
    /\ pc = "done"
    /\ call.fn = "from_yaml"
    /\ applied = <<1, 2, 3, 4, 5>>
    /\ heap[ret]["schema_version"] = CURRENT_COLLECTION_SCHEMA_VERSION

\* C2 as stated: a conversion function leaves the dict it was handed
\* unchanged (and returns the converted dict).
C2_ArgumentUnchanged ==
    (pc = "returned" /\ call.fn \in {"convert_dict", "convert_contents"}) =>
        heap[call.arg] = heap0[call.arg]

\* C2, amended: a conversion function converts the dict it was handed in
\* place and returns that same dict; no other dict is written.  Every
\* _convert_vN function changes its argument (to schema version N+1); of the
\* contents conversions v1->v2 and v2->v3 change nothing, v3->v4 and v4->v5
\* always change the argument and v5->v6 changes it when it has a node.
C2_ConvertsInPlace ==
    (pc = "returned" /\ call.fn \in {"convert_dict", "convert_contents"}) =>
        /\ ret = call.arg
        /\ \A a \in Addr \ {call.arg} : heap[a] = heap0[a]
        /\ call.fn = "convert_dict" =>
              /\ heap0[call.arg]["schema_version"] = call.version
              /\ heap[call.arg]["schema_version"] = call.version + 1
        /\ (call.fn = "convert_contents" /\ call.version \in {1, 2}) =>
              heap[call.arg] = heap0[call.arg]
        /\ (call.fn = "convert_contents" /\ call.version \in {3, 4}) =>
              heap[call.arg] # heap0[call.arg]
        /\ (call.fn = "convert_contents" /\ call.version = 5) =>
              (heap[call.arg] = heap0[call.arg]
                 <=> heap0[call.arg]["nodes"] = <<>>)

C2_Witness ==
    /\ pc = "returned"
    /\ call.fn = "convert_dict"
    /\ call.version = 2
    /\ ret = call.arg
    /\ heap[call.arg] # heap0[call.arg]

\* C3: from_yaml raises InvalidInputException when the dict has no
\* schema_version and Exception when the schema version is below 1 or above
\* the current one, in both cases before any conversion has run and without
\* a write to the dict.
C3_RejectsWithoutConverting ==
    (call.fn = "from_yaml" /\ pc # "check") =>
        /\ ~HasKey(YamlInput, "schema_version") =>
              /\ pc = "raised"
              /\ exc = "InvalidInputException"
              /\ applied = <<>>
              /\ heap = heap0
              /\ collection = NoObject
        /\ (HasKey(YamlInput, "schema_version") /\ ~ValidInputVersion) =>
              /\ pc = "raised"
              /\ exc = "Exception"
              /\ applied = <<>>
              /\ heap = heap0
              /\ collection = NoObject

C3_Witness ==
    /\ call.fn = "from_yaml"
    /\ pc = "raised"
    /\ exc = "Exception"
    /\ YamlInput["schema_version"] > CURRENT_COLLECTION_SCHEMA_VERSION
    /\ applied = <<>>

---------------------------------------------------------------------------
(* Properties of the node list methods.  collection0 is the Collection on  *)
(* which the last call was made and collection what the call left.         *)

\* The call changed nothing of the Collection but, at most, its node list.
OnlyNodesChanged == [collection EXCEPT !.nodes = collection0.nodes] = collection0

HasNodeOf(nodes, e) == \E i \in DOMAIN nodes : nodes[i].exploration_id = e

\* C5: add_node(e) raises ValueError and leaves the node list unchanged when
\* a node of exploration e is in the collection; otherwise it appends one
\* node for e at the end, the nodes before it unchanged and in their order.
C5_AddNode ==
    call.fn = "add_node" =>
        LET e == call.exploration_id
            nodes0 == collection0.nodes
            nodes == collection.nodes
        IN /\ OnlyNodesChanged
           /\ IF HasNodeOf(nodes0, e)
              THEN /\ exc = "ValueError"
                   /\ nodes = nodes0
              ELSE /\ exc = "none"
                   /\ Len(nodes) = Len(nodes0) + 1
                   /\ \A i \in DOMAIN nodes0 : nodes[i] = nodes0[i]
                   /\ nodes[Len(nodes)].exploration_id = e

C5_Witness ==
    /\ call.fn = "add_node"
    /\ exc = "none"
    /\ Len(collection0.nodes) = 2
    /\ Len(collection.nodes) = 3
    /\ collection.nodes[3].exploration_id = call.exploration_id

\* C6: delete_node(e) raises ValueError and leaves the node list unchanged
\* when no node is of exploration e; otherwise it removes the node of e and
\* no other: the list is one shorter, the other nodes keep their order, and
\* no node of e is left.
C6_DeleteNode ==
    call.fn = "delete_node" =>
        LET e == call.exploration_id
            nodes0 == collection0.nodes
            nodes == collection.nodes
        IN /\ OnlyNodesChanged
           /\ IF ~HasNodeOf(nodes0, e)
              THEN /\ exc = "ValueError"
                   /\ nodes = nodes0
              ELSE /\ exc = "none"
                   /\ Len(nodes) = Len(nodes0) - 1
                   /\ ~HasNodeOf(nodes, e)
                   /\ \E k \in DOMAIN nodes0 :
                         /\ nodes0[k].exploration_id = e
                         /\ \A i \in 1..(k - 1) : nodes[i] = nodes0[i]
                         /\ \A i \in k..Len(nodes) : nodes[i] = nodes0[i + 1]

C6_Witness ==
    /\ call.fn = "delete_node"
    /\ exc = "none"
    /\ Len(collection0.nodes) = 3
    /\ collection0.nodes[2].exploration_id = call.exploration_id
    /\ collection.nodes = <<collection0.nodes[1], collection0.nodes[3]>>

\* C7: swap_nodes(i, j) raises ValueError and leaves the node list unchanged
\* when i = j; for different positions i, j of the list, the node that was
\* at i is at j and the node that was at j is at i, every other position and
\* the length are unchanged.
C7_SwapNodes ==
    call.fn = "swap_nodes" =>
        LET i == call.first_index
            j == call.second_index
            nodes0 == collection0.nodes
            nodes == collection.nodes
        IN /\ OnlyNodesChanged
           /\ i = j => (exc = "ValueError" /\ nodes = nodes0)
           /\ (i # j /\ i \in 0..(Len(nodes0) - 1)
                     /\ j \in 0..(Len(nodes0) - 1)) =>
                 /\ exc = "none"
                 /\ Len(nodes) = Len(nodes0)
                 /\ nodes[j + 1] = nodes0[i + 1]
                 /\ nodes[i + 1] = nodes0[j + 1]
                 /\ \A k \in DOMAIN nodes0 \ {i + 1, j + 1} :
                       nodes[k] = nodes0[k]

C7_Witness ==
    /\ call.fn = "swap_nodes"
    /\ call.first_index = 0
    /\ call.second_index = 2
    /\ exc = "none"
    /\ Len(collection0.nodes) = 3
    /\ collection.nodes = <<collection0.nodes[3], collection0.nodes[2],
                            collection0.nodes[1]>>
    /\ collection.nodes # collection0.nodes

\* C8: get_next_exploration_id(completed) returns the id of the first node,
\* in list order, whose id is not in completed, and None exactly when every
\* node's id is in completed (so for the empty collection); completed ids
\* that are not in the collection are ignored; for the empty completed list
\* the result is first_exploration_id.
C8_NextExploration ==
    call.fn = "get_next_exploration_id" =>
        LET ids == exploration_ids(collection)
            completed == call.completed_exp_ids
        IN /\ collection = collection0
           /\ exc = "none"
           /\ ret = None <=> \A i \in DOMAIN ids : ids[i] \in completed
           /\ ret # None =>
                 \E k \in DOMAIN ids :
                    /\ ids[k] = ret
                    /\ ret \notin completed
                    /\ \A i \in 1..(k - 1) : ids[i] \in completed
           /\ completed \cap Range(ids) = {} =>
                 ret = first_exploration_id(collection)

C8_Witness ==
    /\ call.fn = "get_next_exploration_id"
    /\ Len(collection.nodes) = 3
    /\ call.completed_exp_ids
          = {collection.nodes[1].exploration_id, "fake_exp_id"}
    /\ ret = collection.nodes[2].exploration_id

\* C9: get_next_exploration_id_in_sequence(x) returns the id of the node
\* right after the node of exploration x, and None when x is the
\* exploration of the last node or of no node.
C9_NextInSequence ==
    call.fn = "get_next_exploration_id_in_sequence" =>
        LET x == call.current_exploration_id
            nodes == collection.nodes
        IN /\ collection = collection0
           /\ exc = "none"
           /\ \A k \in 1..(Len(nodes) - 1) :
                 nodes[k].exploration_id = x =>
                    ret = nodes[k + 1].exploration_id
           /\ (Len(nodes) > 0 /\ nodes[Len(nodes)].exploration_id = x) =>
                 ret = None
           /\ ~HasNodeOf(nodes, x) => ret = None

C9_Witness ==
    /\ call.fn = "get_next_exploration_id_in_sequence"
    /\ Len(collection.nodes) = 3
    /\ call.current_exploration_id = collection.nodes[2].exploration_id
    /\ ret = collection.nodes[3].exploration_id


---------------------------------------------------------------------------
(* Properties of validate.                                                 *)

TitleIsEmpty == collection.title = PyStr("")
ObjectiveIsEmpty == collection.objective = PyStr("")
CategoryIsEmpty == collection.category = PyStr("")
NodesIsEmpty == collection.nodes = PyList(<<>>)

\* The collection is valid apart from, possibly, an empty title, objective,
\* category or node list.
ValidButForEmptiness ==
    /\ collection.title \in {PyStr(""), PyStr("A title")}
    /\ collection.category \in {PyStr(""), PyStr("A category")}
    /\ collection.objective \in {PyStr(""), PyStr("An objective")}
    /\ collection.language_code = PyStr("en")
    /\ collection.tags \in {PyList(<<>>), PyList(<<PyStr("abc")>>),
                            PyList(<<PyStr("abc"), PyStr("def")>>)}
    /\ collection.schema_version = PyInt(CURRENT_COLLECTION_SCHEMA_VERSION)
    /\ IsInstance(collection.nodes, "list")
    /\ \A i \in DOMAIN Val(collection.nodes) :
          /\ IsInstance(Val(collection.nodes)[i].exploration_id, "str")
          /\ \A j \in DOMAIN Val(collection.nodes) :
                i # j => Val(collection.nodes)[i] # Val(collection.nodes)[j]

TitleError == "A title must be specified for the collection."
ObjectiveError == "An objective must be specified for the collection."
CategoryError == "A category must be specified for the collection."
NodesError == "Expected to have at least 1 exploration in the collection."

\* C10: on a collection that is valid apart from an empty title, objective,
\* category or node list, validate(strict=False) raises nothing, and
\* validate(strict=True) raises a ValidationError as soon as one of the four
\* is empty: the one about the title, objective, category or node list when
\* that one alone is empty.  Whatever the collection, when validate(strict=
\* True) raises nothing, validate(strict=False) raises nothing either.
C10_StrictnessOfValidate ==
    /\ (ValidButForEmptiness /\ validation[FALSE] # "not called")
          => validation[FALSE] = "none"
    /\ (ValidButForEmptiness /\ validation[TRUE] # "not called")
          => /\ (TitleIsEmpty \/ ObjectiveIsEmpty \/ CategoryIsEmpty
                    \/ NodesIsEmpty)
                   <=> validation[TRUE] \in {TitleError, ObjectiveError,
                                             CategoryError, NodesError}
             /\ TitleIsEmpty => validation[TRUE] = TitleError
             /\ (ObjectiveIsEmpty /\ ~TitleIsEmpty)
                   => validation[TRUE] = ObjectiveError
             /\ (CategoryIsEmpty /\ ~TitleIsEmpty /\ ~ObjectiveIsEmpty)
                   => validation[TRUE] = CategoryError
             /\ (NodesIsEmpty /\ ~TitleIsEmpty /\ ~ObjectiveIsEmpty
                    /\ ~CategoryIsEmpty)
                   => validation[TRUE] = NodesError
    /\ (validation[TRUE] = "none" /\ validation[FALSE] # "not called")
          => validation[FALSE] = "none"

\* Both validations have run on a collection with nothing wrong but an empty
\* node list: the lenient one passed and the strict one raised.
C10_Witness ==
    /\ ValidButForEmptiness
    /\ NodesIsEmpty /\ ~TitleIsEmpty /\ ~ObjectiveIsEmpty /\ ~CategoryIsEmpty
    /\ validation[FALSE] = "none"
    /\ validation[TRUE] = NodesError

HasDuplicateExplorationIds ==
    /\ IsInstance(collection.nodes, "list")
    /\ \E i, j \in DOMAIN Val(collection.nodes) :
          /\ i # j
          /\ Val(collection.nodes)[i].exploration_id
                = Val(collection.nodes)[j].exploration_id

HasDuplicateTags ==
    /\ IsInstance(collection.tags, "list")
    /\ \E i, j \in DOMAIN Val(collection.tags) :
          i # j /\ Val(collection.tags)[i] = Val(collection.tags)[j]

HasOtherSchemaVersion ==
    collection.schema_version # PyInt(CURRENT_COLLECTION_SCHEMA_VERSION)

\* The outcome of a call of validate that raised a ValidationError.
IsValidationError(outcome) ==
    outcome \notin {"not called", "none", UnhashableError}

\* C11: validate, strict or not, raises a ValidationError whenever two nodes
\* have the same exploration id, two tags are the same, or the schema version
\* is not the current one; so a collection on which validate raises nothing
\* has none of the three.
C11_RejectsDuplicatesAndOtherVersions ==
    \A strict \in BOOLEAN :
        /\ (validation[strict] # "not called"
               /\ (HasDuplicateExplorationIds \/ HasDuplicateTags
                      \/ HasOtherSchemaVersion))
              => IsValidationError(validation[strict])
        /\ validation[strict] = "none"
              => (~HasDuplicateExplorationIds /\ ~HasDuplicateTags
                     /\ ~HasOtherSchemaVersion)

\* validate has run on a collection whose only fault is a tag that occurs
\* twice, the tag being a list: set(self.tags) raised a TypeError.
C11_Witness ==
    /\ collection.title = PyStr("A title")
    /\ collection.category = PyStr("A category")
    /\ collection.objective = PyStr("An objective")
    /\ collection.language_code = PyStr("en")
    /\ collection.schema_version = PyInt(CURRENT_COLLECTION_SCHEMA_VERSION)
    /\ collection.nodes = PyList(<<[exploration_id |-> PyStr("exp_id_0")]>>)
    /\ HasDuplicateTags
    /\ validation[TRUE] = UnhashableError
    /\ validation[FALSE] = UnhashableError

---------------------------------------------------------------------------
(* Properties of export and import.                                        *)

\* C12: the Collection built by from_dict from the dict of a collection has
\* the same dict as the collection, the nodes in the same order.
C12_DictRoundTrip ==
    call.fn = "from_dict"
        => /\ ret = to_dict(collection0)
           /\ to_dict(collection) = to_dict(collection0)
           /\ exploration_ids(collection) = exploration_ids(collection0)

\* A collection of two nodes, a version and dates has been through to_dict
\* and from_dict.
C12_Witness ==
    /\ call.fn = "from_dict"
    /\ Len(collection0.nodes) = 2
    /\ collection0.nodes[1] # collection0.nodes[2]
    /\ collection0.tags # <<>>
    /\ collection0.version = 3
    /\ collection0.created_on # None

\* C13: the Collection built by deserialize from the serialization of a
\* collection has the same dict, version, created_on and last_updated as the
\* collection.
C13_SerializeRoundTrip ==
    call.fn = "deserialize"
        => /\ to_dict(collection) = to_dict(collection0)
           /\ collection.version = collection0.version
           /\ collection.created_on = collection0.created_on
           /\ collection.last_updated = collection0.last_updated

\* A collection with a version, a creation date and no date of last update
\* has been serialized and deserialized.
C13_Witness ==
    /\ call.fn = "deserialize"
    /\ collection0.version = 3
    /\ collection0.created_on \in Datetimes
    /\ collection0.last_updated = None
    /\ HasKey(ret[2], "created_on")
    /\ ~HasKey(ret[2], "last_updated")
    /\ Len(collection0.nodes) = 2

\* C14: from_yaml, under any id, of the YAML of a collection at the current
\* schema version returns a Collection with the same YAML: the YAML holds
\* every key of the collection's dict but the id, and the Collection has the
\* id given and the title, category, objective, language code, tags, schema
\* version and nodes of the exported one.
C14_YamlRoundTrip ==
    (call.fn = "from_yaml"
        /\ collection0.schema_version = CURRENT_COLLECTION_SCHEMA_VERSION)
        => /\ pc # "raised"
           /\ DOMAIN to_yaml(collection0)[2]
                 = DOMAIN to_dict(collection0) \ {"id"}
           /\ pc = "done"
                 => /\ to_yaml(collection) = to_yaml(collection0)
                    /\ collection.id = call.collection_id
                    /\ to_dict(collection)
                          = SetKey(to_dict(collection0), "id",
                                   call.collection_id)

\* from_yaml has returned the Collection of the YAML of a collection of two
\* nodes, under another id than the collection's.
C14_Witness ==
    /\ call.fn = "from_yaml"
    /\ pc = "done"
    /\ collection0.schema_version = CURRENT_COLLECTION_SCHEMA_VERSION
    /\ call.collection_id # collection0.id
    /\ Len(collection0.nodes) = 2
    /\ collection0.tags # <<>>

---------------------------------------------------------------------------
(* Properties of the feature flag service.                                 *)

\* C15: a call of update_feature_flag_rules with a name that is not in
\* ALL_FEATURES_NAMES_SET raises FeatureFlagNotFoundException, makes no call
\* to the registry and leaves the rules of every parameter as they were; a
\* call with a registered name raises nothing and calls the registry's
\* update once, for that name, with the rule dicts given.
C15_UpdateOnlyRegisteredFlags ==
    [][call'.fn = "update_feature_flag_rules"
          => IF call'.feature_name \notin ALL_FEATURES_NAMES_SET
             THEN /\ exc' = "FeatureFlagNotFoundException"
                  /\ pc' = "raised"
                  /\ registry_log' = NoCalls
                  /\ registry' = registry
             ELSE /\ exc' = "none"
                  /\ pc' = "returned"
                  /\ registry_log'
                        = Once({UpdateCall(call'.feature_name,
                                           call'.committer_id,
                                           call'.commit_message,
                                           call'.new_rule_dicts)})
                  /\ registry'
                        = [registry EXCEPT ![call'.feature_name]
                                               = call'.new_rule_dicts]
      ]_vars

\* After an update that went through, an update was asked for a platform
\* parameter that is no feature flag, and was refused.
C15_Witness ==
    /\ call.fn = "update_feature_flag_rules"
    /\ call.feature_name \in OtherParameterNames
    /\ call.new_rule_dicts # <<>>
    /\ exc = "FeatureFlagNotFoundException"
    /\ registry # DefaultRegistry
    /\ registry_log = NoCalls

\* C16: evaluate_all_feature_flag_values_for_client raises nothing, and the
\* dict it returns has the names of the dev, test and prod feature lists as
\* its keys, no other, each with the value its parameter evaluates to in the
\* context given.
C16_EvaluatesAllFlags ==
    call.fn = "evaluate_all_feature_flag_values_for_client"
        => /\ exc = "none"
           /\ DOMAIN ret = ALL_FEATURES_NAMES_SET
           /\ DOMAIN ret = Range(DEV_FEATURES_LIST)
                              \cup Range(TEST_FEATURES_LIST)
                              \cup Range(PROD_FEATURES_LIST)
           /\ \A feature_name \in ALL_FEATURES_NAMES_SET :
                 ret[feature_name]
                    = evaluate(registry[feature_name], call.context)

\* All flags have been evaluated for a client, one of them enabled by a rule
\* and another one disabled.
C16_Witness ==
    /\ call.fn = "evaluate_all_feature_flag_values_for_client"
    /\ pc = "returned"
    /\ \E enabled, disabled \in ALL_FEATURES_NAMES_SET :
          /\ ret[enabled] /\ registry[enabled] # <<>>
          /\ ~ret[disabled]

---------------------------------------------------------------------------
(* Properties of CollectionSummary.                                        *)

\* The entries of the counts other than the contributor's are as before.
OtherCountsUnchanged ==
    /\ DOMAIN summary.contributors_summary \ {call.contributor_id}
          = DOMAIN summary0.contributors_summary \ {call.contributor_id}
    /\ \A user \in DOMAIN summary0.contributors_summary \ {call.contributor_id} :
          summary.contributors_summary[user]
             = summary0.contributors_summary[user]

\* The count of a contributor that is no system user is 1 if it had none and
\* one more than before otherwise, and the contributor is in contributor_ids.
CountedOnce ==
    /\ HasKey(summary.contributors_summary, call.contributor_id)
    /\ summary.contributors_summary[call.contributor_id]
          = IF HasKey(summary0.contributors_summary, call.contributor_id)
            THEN summary0.contributors_summary[call.contributor_id] + 1
            ELSE 1
    /\ OtherCountsUnchanged
    /\ call.contributor_id \in Range(summary.contributor_ids)

\* C17 as stated: a contributor that is no system user is counted once more
\* and is in contributor_ids afterwards; a system user gets no entry in the
\* counts and is not in contributor_ids afterwards.
C17_AsStated ==
    call.fn = "add_contribution_by_user"
        => IF call.contributor_id \notin SYSTEM_USER_IDS
           THEN CountedOnce
           ELSE /\ summary.contributors_summary
                      = summary0.contributors_summary
                /\ call.contributor_id \notin Range(summary.contributor_ids)

\* C17: a contributor that is no system user is counted once more and is in
\* contributor_ids afterwards; for a system user the counts are as before,
\* and it is in contributor_ids afterwards exactly when the counts already
\* had an entry for it.
C17_AddContribution ==
    call.fn = "add_contribution_by_user"
        => IF call.contributor_id \notin SYSTEM_USER_IDS
           THEN CountedOnce
           ELSE /\ summary.contributors_summary
                      = summary0.contributors_summary
                /\ call.contributor_id \in Range(summary.contributor_ids)
                      <=> HasKey(summary0.contributors_summary,
                                 call.contributor_id)

\* A system user has contributed to a summary whose counts had an entry for
\* it and for a user who contributed before: the counts are as they were and
\* the system user is among the contributor ids.
C17_Witness ==
    /\ call.fn = "add_contribution_by_user"
    /\ call.contributor_id = SYSTEM_COMMITTER_ID
    /\ HasKey(summary0.contributors_summary, SYSTEM_COMMITTER_ID)
    /\ HasKey(summary0.contributors_summary, "user_id")
    /\ summary0.contributors_summary["user_id"] = 2
    /\ summary.contributors_summary = summary0.contributors_summary
    /\ SYSTEM_COMMITTER_ID \in Range(summary.contributor_ids)

\* After the call the contributor ids are the keys of the counts, and counts
\* that were all at least 1 are all at least 1.
IdsAreKeysOfCounts ==
    /\ Range(summary.contributor_ids) = DOMAIN summary.contributors_summary
    /\ Len(summary.contributor_ids)
           = Cardinality(DOMAIN summary.contributors_summary)
    /\ (\A user \in DOMAIN summary0.contributors_summary :
            summary0.contributors_summary[user] >= 1)
       => (\A user \in DOMAIN summary.contributors_summary :
               summary.contributors_summary[user] >= 1)

\* C30 as stated: after a call of add_contribution_by_user from any state,
\* the contributor ids are the keys of the counts, counts that were at least
\* 1 are at least 1, and every id that was in contributor_ids before the
\* call is in it afterwards.
C30_AsStated ==
    call.fn = "add_contribution_by_user" =>
        /\ IdsAreKeysOfCounts
        /\ Range(summary0.contributor_ids)
               \subseteq Range(summary.contributor_ids)

\* C30: after a call of add_contribution_by_user from any state, the
\* contributor ids are the keys of the counts and counts that were at least
\* 1 are at least 1; the ids afterwards are the users that had a count
\* before and, unless a system user, the contributor: an id that was in
\* contributor_ids before with a count is kept, one without a count is
\* dropped unless it is the contributor.
C30_ContributorIdsFollowCounts ==
    call.fn = "add_contribution_by_user" =>
        /\ IdsAreKeysOfCounts
        /\ Range(summary.contributor_ids)
               = DOMAIN summary0.contributors_summary
                 \cup ({call.contributor_id} \ SYSTEM_USER_IDS)

\* From the summary of the test's setUp, contributor_ids ['contributor_id']
\* and no counts, a contribution of 'user_id' leaves 'user_id' as the only
\* contributor id.
C30_Witness ==
    /\ call.fn = "add_contribution_by_user"
    /\ call.contributor_id = "user_id"
    /\ summary0.contributor_ids = <<"contributor_id">>
    /\ summary0.contributors_summary = EmptyDict
    /\ summary.contributor_ids = <<"user_id">>
    /\ summary.contributors_summary["user_id"] = 1

---------------------------------------------------------------------------
(* Properties of the exploration editor handlers.                          *)

LastPut == call.fn = "ExplorationHandler.put"
LastAutosave == call.fn = "EditorAutosaveHandler.put"

\* Every change of the list edits the recorded_voiceovers of a state.
OnlyVoiceoverChanges(change_list) ==
    \A i \in 1..Len(change_list) :
        /\ change_list[i].cmd = "edit_state_property"
        /\ change_list[i].property_name = "recorded_voiceovers"

\* The payload of the last request was prepared against the version the
\* exploration had when the request came in.
HasCurrentVersion ==
    /\ HasKey(call.payload, "version")
    /\ call.payload.version = exploration0.version

PermissionResponse ==
    [status_code |-> 400,
     error |-> "Voice artist does not have permission to make some changes in the change list."]

\* C18: a voice artist's save changes the exploration only if every change
\* of the list edits the recorded_voiceovers of a state; made against the
\* current version, such a save succeeds and the response carries the new
\* recorded_voiceovers, and a list with any other change gets the 400
\* response of the permission error; a list with any other change leaves
\* the exploration as it was.
C18_VoiceArtistSaves ==
    (LastPut /\ call.role = ROLE_VOICE_ARTIST) =>
        LET change_list == call.payload.change_list
        IN  /\ exploration # exploration0 => OnlyVoiceoverChanges(change_list)
            /\ ~OnlyVoiceoverChanges(change_list) =>
                   exploration = exploration0
            /\ (HasCurrentVersion /\ OnlyVoiceoverChanges(change_list)) =>
                   /\ exc = "none"
                   /\ ret.status_code = 200
                   /\ ret.recorded_voiceovers =
                          change_list[Len(change_list)].new_value
                   /\ exploration.recorded_voiceovers =
                          ret.recorded_voiceovers
                   /\ exploration.version = exploration0.version + 1
            /\ (HasCurrentVersion /\ ~OnlyVoiceoverChanges(change_list)) =>
                   /\ exc = "none"
                   /\ ret = PermissionResponse

\* A voice artist whose voiceover save went through is refused a list that
\* changes the objective as well.
C18_Witness ==
    /\ LastPut
    /\ call.role = ROLE_VOICE_ARTIST
    /\ call.payload.change_list = <<VoiceoverChange, ObjectiveChange>>
    /\ HasCurrentVersion
    /\ exploration0.recorded_voiceovers = "RECORDED_VOICEOVERS"
    /\ exc = "none"
    /\ ret = PermissionResponse
    /\ exploration = exploration0

\* C19: an autosave of a voice artist with a change the voice artist may
\* not make fails with status 400 and leaves draft_change_list and
\* draft_change_list_id as stored; with a permitted change list the draft
\* is stored with the version of the payload, draft_change_list_id goes up
\* by exactly one, and is_version_of_draft_valid is true exactly when the
\* version of the payload is the version of the exploration.
C19_AutosaveDraft ==
    LastAutosave =>
        LET payload == call.payload
        IN  IF OnlyVoiceoverChanges(payload.change_list)
            THEN /\ ret.status_code = 200
                 /\ draft.draft_change_list = payload.change_list
                 /\ draft.draft_change_list_exp_version = payload.version
                 /\ draft.draft_change_list_id =
                        draft0.draft_change_list_id + 1
                 /\ ret.draft_change_list_id = draft.draft_change_list_id
                 /\ ret.is_version_of_draft_valid
                        <=> payload.version = exploration.version
            ELSE /\ ret.status_code = 400
                 /\ draft.draft_change_list = draft0.draft_change_list
                 /\ draft.draft_change_list_id = draft0.draft_change_list_id

\* A second draft is stored against a version the exploration does not
\* have.
C19_Witness ==
    /\ LastAutosave
    /\ OnlyVoiceoverChanges(call.payload.change_list)
    /\ call.payload.version # exploration.version
    /\ draft.draft_change_list_exp_version = call.payload.version
    /\ draft.draft_change_list_id = 3
    /\ ~ret.is_version_of_draft_valid

StaleVersionMessage(exploration_version, payload_version) ==
    "Trying to update version " \o ToString(exploration_version)
    \o " of exploration from version " \o ToString(payload_version)
    \o ", which is not possible. Please reload the page and try again."

---------------------------------------------------------------------------
(* Properties of is_feature_enabled and of the evaluation for a context.   *)

\* The context of the server, as the claim words it.
ServerOnlyContext ==
    [platform_type |-> "Backend",
     app_version |-> None,
     server_mode |-> IF dev_mode THEN "dev" ELSE "prod"]

ReturnedFromIsFeatureEnabled ==
    /\ call.fn = "is_feature_enabled"
    /\ exc = "none"

\* C24: is_feature_enabled returns the value of the flag in the context of
\* platform_type 'Backend', app_version None and server_mode dev when
\* DEV_MODE is true and prod otherwise; and a call that follows a call for
\* the same name, the registry and DEV_MODE being the same, returns the
\* same boolean.
C24_ServerOnlyContext ==
    /\ [](ReturnedFromIsFeatureEnabled =>
              /\ ret \in BOOLEAN
              /\ ret = evaluate(registry[call.feature_name],
                                ServerOnlyContext))
    /\ [][(/\ ReturnedFromIsFeatureEnabled
           /\ call'.fn = "is_feature_enabled"
           /\ call'.feature_name = call.feature_name
           /\ registry' = registry
           /\ dev_mode' = dev_mode)
          => (exc' = "none" /\ ret' = ret)]_vars

\* In production mode a flag that is on for dev servers is found off.
C24_Witness ==
    /\ ReturnedFromIsFeatureEnabled
    /\ ~dev_mode
    /\ registry[call.feature_name] =
           <<[filter_type |-> "server_mode", filter_value |-> "dev",
              value_when_matched |-> TRUE]>>
    /\ ret = FALSE

\* The names the call at hand asks for.
RequestedNames ==
    IF call.fn = "is_feature_enabled"
    THEN {call.feature_name}
    ELSE call.feature_names_set

\* C25: is_feature_enabled and _evaluate_feature_flag_values_for_context
\* raise FeatureFlagNotFoundException when a requested name is not in
\* ALL_FEATURES_NAMES_SET, with no call made to the registry; otherwise
\* they return, and the dict returned has exactly the requested names as
\* its keys.
C25_UnknownNamesRaiseFirst ==
    call.fn \in {"is_feature_enabled",
                 "_evaluate_feature_flag_values_for_context"} =>
        IF RequestedNames \ ALL_FEATURES_NAMES_SET # {}
        THEN /\ exc = "FeatureFlagNotFoundException"
             /\ pc = "raised"
             /\ registry_log = NoCalls
        ELSE /\ exc = "none"
             /\ call.fn = "_evaluate_feature_flag_values_for_context" =>
                    DOMAIN ret = RequestedNames
             /\ call.fn = "is_feature_enabled" => ret \in BOOLEAN

\* A registered name asked for together with an unknown one: the call
\* raises and the registered flag has not been looked up.
C25_Witness ==
    /\ call.fn = "_evaluate_feature_flag_values_for_context"
    /\ call.feature_names_set = {"dummy_feature", "unknown_feature"}
    /\ exc = "FeatureFlagNotFoundException"
    /\ registry_log = NoCalls

---------------------------------------------------------------------------
(* Properties of the node list under add_node, delete_node and swap_nodes. *)

\* The collection with its attributes as the Python values validate reads.
AsPythonValues(c) ==
    [title |-> PyStr(c.title),
     category |-> PyStr(c.category),
     objective |-> PyStr(c.objective),
     language_code |-> PyStr(c.language_code),
     tags |-> PyList([i \in DOMAIN c.tags |-> PyStr(c.tags[i])]),
     schema_version |-> PyInt(c.schema_version),
     nodes |-> PyList([i \in DOMAIN c.nodes |->
                          [exploration_id |->
                              PyStr(c.nodes[i].exploration_id)]])]

\* C26: from create_default_collection on, after any calls of add_node,
\* delete_node and swap_nodes, those that raise included, no two nodes of
\* the collection have the same exploration id, and validate does not
\* raise the error of an exploration referenced more than once.
C26_NodesStayDistinct ==
    /\ \A i, j \in DOMAIN collection.nodes :
           i # j =>
               collection.nodes[i].exploration_id
                   # collection.nodes[j].exploration_id
    /\ validate(AsPythonValues(collection), FALSE)
           # "There are explorations referenced in the collection more than once."

\* An add_node of an exploration the collection has raised, after nodes
\* were added and swapped.
C26_Witness ==
    /\ call.fn = "add_node"
    /\ exc = "ValueError"
    /\ Len(collection.nodes) = MaxNodes
    /\ collection.nodes[1].exploration_id = "exp_id_2"
    /\ collection.nodes[MaxNodes].exploration_id = "exp_id_0"
    /\ call.exploration_id = "exp_id_0"
    /\ collection = collection0

---------------------------------------------------------------------------
(* Properties of update_collection_contents_from_model when it raises.     *)

RaisedInUpdate ==
    /\ call.fn = "update_collection_contents_from_model"
    /\ pc = "raised"

\* C27: whenever update_collection_contents_from_model raises, whatever the
\* stored schema_version and current_version are, the versioned dict and
\* its contents are as they were before the call; so the call does not set
\* schema_version to a value above CURRENT_COLLECTION_SCHEMA_VERSION.
C27_UnchangedWhenRaised ==
    RaisedInUpdate =>
        /\ heap = heap0
        /\ heap0[call.versioned_collection_contents]["schema_version"]
               <= CURRENT_COLLECTION_SCHEMA_VERSION =>
             heap[call.versioned_collection_contents]["schema_version"]
                 <= CURRENT_COLLECTION_SCHEMA_VERSION

\* The call raised for want of a conversion from current_version, after it
\* had written a schema_version above the current one.
C27_Witness ==
    /\ RaisedInUpdate
    /\ exc = "AttributeError"
    /\ heap0[call.versioned_collection_contents]["schema_version"] = 1
    /\ call.current_version = CURRENT_COLLECTION_SCHEMA_VERSION
    /\ heap[call.versioned_collection_contents]["schema_version"]
           = CURRENT_COLLECTION_SCHEMA_VERSION + 1

---------------------------------------------------------------------------
(* What a migration to the latest schema version keeps.                    *)

NodeIds(nodes) == [i \in DOMAIN nodes |-> nodes[i]["exploration_id"]]

\* C28: migrating a YAML dict of schema version v in 1..CURRENT to the
\* latest version keeps title, category and objective and the sequence of
\* exploration ids of the nodes, in the dict returned and in the Collection
\* built from it; for v >= 2 it keeps language_code and tags as well, for
\* v = 1 language_code becomes the default language code and tags the
\* empty list; and the nodes of the Collection carry an exploration_id and
\* nothing else.
C28_MigrationKeepsMetadata ==
    (call.fn = "from_yaml" /\ pc = "done") =>
        LET migrated == heap[ret]
            v == YamlInput["schema_version"]
        IN /\ ValidInputVersion
           /\ \A key \in {"title", "category", "objective"} :
                  /\ migrated[key] = YamlInput[key]
                  /\ collection[key] = YamlInput[key]
           /\ NodeIds(migrated["nodes"]) = NodeIds(YamlInput["nodes"])
           /\ NodeIds(collection.nodes) = NodeIds(YamlInput["nodes"])
           /\ v >= 2 =>
                  \A key \in {"language_code", "tags"} :
                      /\ migrated[key] = YamlInput[key]
                      /\ collection[key] = YamlInput[key]
           /\ v = 1 =>
                  /\ migrated["language_code"] = DEFAULT_LANGUAGE_CODE
                  /\ collection.language_code = DEFAULT_LANGUAGE_CODE
                  /\ migrated["tags"] = <<>>
                  /\ collection.tags = <<>>
           /\ \A i \in DOMAIN collection.nodes :
                  DOMAIN collection.nodes[i] = {"exploration_id"}

\* A version 4 dict of two nodes with skill ids has been migrated: the
\* nodes of the dict still hold the skill ids, those of the Collection
\* do not.
C28_Witness ==
    /\ call.fn = "from_yaml"
    /\ pc = "done"
    /\ YamlInput["schema_version"] = 4
    /\ NodeIds(YamlInput["nodes"]) = <<"Exp2", "Exp1">>
    /\ NodeIds(collection.nodes) = <<"Exp2", "Exp1">>
    /\ HasKey(heap[ret]["nodes"][1], "acquired_skill_ids")
    /\ YamlInput["tags"] = <<"algebra">>
    /\ collection.tags = <<"algebra">>

---------------------------------------------------------------------------
(* The skill ids the contents conversion from version 3 to 4 assigns.      *)

\* The skill names of the nodes the conversion was handed.
NamesOfNodes(nodes) ==
    UNION {Range(nodes[i]["acquired_skills"])
              \cup Range(nodes[i]["prerequisite_skills"]) : i \in DOMAIN nodes}

\* 'skill<k>' for k the number of names of the set that sort before name.
RankedSkillId(names, name) ==
    <<"skill", Cardinality({other \in names : other < name})>>

\* C29: the contents conversion from version 3 to 4 gives each distinct
\* skill name of the nodes the id 'skill<k>', k being the 0-based rank of
\* the name in sorted order: distinct names get distinct ids, the skills
\* dict has one entry per name, with that name and no question ids,
\* next_skill_id is the number of names, and the skill id lists of each
\* node are the images, position by position, of its lists of names.
C29_SkillIdsByRank ==
    (call.fn = "convert_contents" /\ call.version = 3 /\ pc = "returned") =>
        LET nodes0 == heap0[call.arg]["nodes"]
            converted == heap[ret]
            names == NamesOfNodes(nodes0)
        IN /\ \A n, m \in names :
                  n # m => RankedSkillId(names, n) # RankedSkillId(names, m)
           /\ DOMAIN converted["skills"]
                  = {RankedSkillId(names, n) : n \in names}
           /\ Cardinality(DOMAIN converted["skills"]) = Cardinality(names)
           /\ \A n \in names :
                  converted["skills"][RankedSkillId(names, n)]
                      = [name |-> n, question_ids |-> <<>>]
           /\ converted["next_skill_id"] = Cardinality(names)
           /\ DOMAIN converted["nodes"] = DOMAIN nodes0
           /\ \A i \in DOMAIN nodes0 :
                  /\ converted["nodes"][i]["exploration_id"]
                         = nodes0[i]["exploration_id"]
                  /\ converted["nodes"][i]["prerequisite_skill_ids"]
                         = [j \in DOMAIN nodes0[i]["prerequisite_skills"] |->
                               RankedSkillId(
                                   names, nodes0[i]["prerequisite_skills"][j])]
                  /\ converted["nodes"][i]["acquired_skill_ids"]
                         = [j \in DOMAIN nodes0[i]["acquired_skills"] |->
                               RankedSkillId(
                                   names, nodes0[i]["acquired_skills"][j])]

\* Nodes that name the second and third skill only: the ids are skill0 and
\* skill1, and a name met in two lists has one id.
C29_Witness ==
    /\ call.fn = "convert_contents"
    /\ call.version = 3
    /\ pc = "returned"
    /\ NamesOfNodes(heap0[call.arg]["nodes"]) = {2, 3}
    /\ heap[ret]["next_skill_id"] = 2
    /\ heap[ret]["nodes"][1]["acquired_skill_ids"] = << <<"skill", 1>> >>
    /\ heap[ret]["nodes"][1]["prerequisite_skill_ids"]
           = << <<"skill", 0>>, <<"skill", 1>> >>

---------------------------------------------------------------------------
(* Properties of the story progress handler.                               *)

PostedStoryProgress == call.fn = "StoryProgressHandler.post"

\* The story the request names exists and is published, its node exists,
\* and the viewer updates are enabled.
PostIsServed ==
    /\ viewer_site.ENABLE_NEW_STRUCTURE_VIEWER_UPDATES
    /\ call.story_url_fragment \in {"title-one", "story-two"}
    /\ (call.story_url_fragment = "title-one" =>
            /\ STORY_ID \in viewer_site.published_story_ids
            /\ call.node_id \in {"node_1", "node_2", "node_3"})
    /\ (call.story_url_fragment = "story-two" =>
            /\ NEW_STORY_ID \in viewer_site.published_story_ids
            /\ call.node_id = "node_1")

PostedStoryId ==
    IF call.story_url_fragment = "title-one" THEN STORY_ID ELSE NEW_STORY_ID

\* The nodes of the posted story in the order of the story, with their
\* explorations.
PostedStoryOrder ==
    IF PostedStoryId = STORY_ID
    THEN << <<"node_2", "0">>, <<"node_1", "1">>, <<"node_3", "7">> >>
    ELSE << <<"node_1", "exp_3">> >>

\* The positions of the order whose node the learner has not completed.
UncompletedPositions ==
    {i \in DOMAIN PostedStoryOrder :
        PostedStoryOrder[i][1] \notin learner.completed_node_ids[PostedStoryId]}

\* C21: a POST for a node the learner had not completed records the node
\* and answers with the first node of the story's order the learner has not
\* completed, and the summary of its exploration, or with None and no
\* summary when every node is completed; a POST for a node the learner had
\* completed answers with None and no summary; a POST fails with 404 when
\* the story or the node does not exist, the story is not published or the
\* viewer updates are disabled.
C21_StoryProgressPost ==
    PostedStoryProgress =>
        IF ~PostIsServed
        THEN ret.status_code = 404
        ELSE /\ ret.status_code = 200
             /\ call.node_id \in learner.completed_node_ids[PostedStoryId]
             /\ IF call.node_id \in learner0.completed_node_ids[PostedStoryId]
                THEN /\ ret.next_node_id = None
                     /\ ret.summaries = <<>>
                ELSE IF UncompletedPositions = {}
                THEN /\ ret.next_node_id = None
                     /\ ret.summaries = <<>>
                ELSE LET first == CHOOSE i \in UncompletedPositions :
                                     \A j \in UncompletedPositions : i <= j
                     IN /\ ret.next_node_id = PostedStoryOrder[first][1]
                        /\ Len(ret.summaries) = 1
                        /\ ret.summaries[1].id = PostedStoryOrder[first][2]

\* The learner, who had completed node_2 and node_3, posts node_1: no node
\* is left, though node_3 follows node_1.
C21_Witness ==
    /\ PostedStoryProgress
    /\ PostIsServed
    /\ call.story_url_fragment = "title-one"
    /\ call.node_id = "node_1"
    /\ learner0.completed_node_ids[STORY_ID] = {"node_2", "node_3"}
    /\ learner.completed_node_ids[STORY_ID] = {"node_1", "node_2", "node_3"}
    /\ ret.next_node_id = None
    /\ ret.summaries = <<>>

\* The published canonical stories of the topic are all among the completed
\* stories of the learner.
AllPublishedStoriesCompleted ==
    viewer_site.published_story_ids \subseteq learner.completed_story_ids

---------------------------------------------------------------------------
(* Properties of the exploration recommendations job.                      *)

\* The pending tasks were processed, and a job was among them.
JobProcessed ==
    /\ call.fn = "process_and_flush_pending_mapreduce_tasks"
    /\ recommender0.queue > 0

PrivateExplorationIds ==
    {exp_id \in DOMAIN recommender.status :
        recommender.status[exp_id] = "private"}

\* C23: enqueuing the job adds one job to the queue of one-off jobs, which
\* then holds exactly one job if it was empty; after the job was processed
\* the queue is empty, and the recommendations the run computed for an
\* exploration hold no private exploration and not the exploration itself:
\* an exploration unpublished before the run is in none of them.
C23_RecommendationsJob ==
    /\ call.fn = "enqueue" =>
           /\ recommender.queue = recommender0.queue + 1
           /\ recommender0.queue = 0 => recommender.queue = 1
    /\ JobProcessed =>
           /\ recommender.queue = 0
           /\ recommender.computed
                  = DOMAIN recommender.status \ PrivateExplorationIds
           /\ \A exp_id \in recommender.computed :
                  /\ exp_id \notin recommender.recommendations[exp_id]
                  /\ recommender.recommendations[exp_id]
                         \cap PrivateExplorationIds = {}

\* exp_id_4 was recommended for exp_id_1, was unpublished, and the job was
\* run again: exp_id_2 and exp_id_3 are left for exp_id_1.
C23_Witness ==
    /\ JobProcessed
    /\ "exp_id_4" \in recommender0.recommendations["exp_id_1"]
    /\ PrivateExplorationIds = {"exp_id_4"}
    /\ recommender.recommendations["exp_id_1"] = {"exp_id_2", "exp_id_3"}

=============================================================================
